---- MODULE Spec2Model ----
(***************************************************************************)
(* Rule-tree evaluation engine (package rules): the node algebra, the      *)
(* Condition / Rule contracts, the data registry and the orchestrators     *)
(* Validate and ValidateMulti.                                             *)
(*                                                                         *)
(* User closures (predicates, loaders, checks) are functions of the bound  *)
(* data.  A data value is abstracted to the outcomes those closures        *)
(* produce on it: the set of rules whose check fails on it (vf), of rules  *)
(* whose loader fails on it (pf), of conditions whose predicate holds on   *)
(* it (cv) and of conditions whose loader fails on it (lf).  A loader's    *)
(* value is abstracted to the input it was loaded for.                     *)
(***************************************************************************)
EXTENDS Integers, Sequences, FiniteSets, TLC

VARIABLES
    input,  \* what the caller passes: tree, ctx, hooks, name / targets
    heap,   \* mutable fields of the Rule and Condition objects
    log,    \* calls made so far on conditions, rules, hooks and roots
    v,      \* locals and position of the running Validate call
    m,      \* locals and position of the running ValidateMulti call
    e,      \* the result of a direct Evaluate call on a tree
    runs,   \* locals and position of each of two ValidateWithData calls
    ctxs    \* the contexts derived so far, each with its parent

vars == <<input, heap, log, v, m, e, runs, ctxs>>

(***************************************************************************)
(* Bounds                                                                  *)
(***************************************************************************)
NumRules == 2
NumConds == 2
MaxChildren == 2
MaxTargets == 2
MaxBranch == 2
MaxCalls == 3
MaxMembers == 2
MaxContexts == 4

RuleNames == 1..NumRules
CondNames == 1..NumConds

(***************************************************************************)
(* Errors                                                                  *)
(***************************************************************************)
\* Error{Field, Code}; the message text is determined by the two.
Error(field, code) == [field |-> field, code |-> code]

\* the nil error
OK == [field |-> 0, code |-> "nil"]

\* errors.Join: nil values are discarded; the result is nil when no value is left
Join(errs) == SelectSeq(errs, LAMBDA x : x # OK)

\* errors.Join as one error value, where it is returned by a rule
JoinError(errs) ==
    IF Join(errs) = <<>> THEN OK ELSE [field |-> 0, code |-> "join", errs |-> Join(errs)]

(***************************************************************************)
(* Data registry and context                                               *)
(***************************************************************************)
NoData == [type |-> "none", vf |-> {}, pf |-> {}, cv |-> {}, lf |-> {}]

\* context.Background(): no registry bound
Background == [reg |-> FALSE, id |-> 0, data |-> NoData]

\* WithRegistry(ctx, NewDataRegistry(data)); id is the identity of the registry
WithRegistry(ctx, id, data) == [reg |-> TRUE, id |-> id, data |-> data]

Get(ctx) == [data |-> IF ctx.reg THEN ctx.data ELSE NoData, ok |-> ctx.reg]

\* GetAs[In]: the type assertion data.(In)
GetAs(ctx) ==
    LET g == Get(ctx) IN
    IF ~g.ok THEN [data |-> NoData, ok |-> FALSE]
    ELSE IF g.data.type = "In" THEN [data |-> g.data, ok |-> TRUE]
    ELSE [data |-> NoData, ok |-> FALSE]

(***************************************************************************)
(* Rules                                                                   *)
(***************************************************************************)
\* NewTypedRule[In](name, fn): a RuleDataFunc, no state of its own
NewTypedRule(name) == [kind |-> "data", name |-> name]

\* NewTypedRuleWithPrepare[In, T](name, prepare, validate): a TypedRuleDataFunc
NewTypedRuleWithPrepare(name) == [kind |-> "prep", name |-> name]

\* NewTypedRule[T](name, fn) for a type T named in the rule
NewTypedRuleOf(type, name) == [kind |-> "data", name |-> name, type |-> type]

\* the type a rule asserts: In where the rule names none
RuleType(r) == IF "type" \in DOMAIN r THEN r.type ELSE "In"

\* NewTypedRuleWithPrepare[In, T](name, nil, validate): no loader is given
NewTypedRuleWithNilPrepare(name) == [kind |-> "prepNil", name |-> name]

\* Or(rule, rules...): an OrRules over the members; it has the execution path
\* field of its own RuleBase, kept under the name 0
Or(rules) == [kind |-> "or", name |-> 0, rules |-> rules]

\* Rule.Name as the execution path shows it
RuleName(r) == IF r.kind = "or" THEN "orRules" ELSE ToString(r.name)

\* the rule objects trees are built from: odd names are stateless rules,
\* even names are rules with a prepare step
RulePool ==
    { IF n % 2 = 1 THEN NewTypedRule(n) ELSE NewTypedRuleWithPrepare(n) : n \in RuleNames }

PrepRuleNames == { n \in RuleNames : n % 2 = 0 }

\* the user's check closure fn: fails on the data listed in vf
UserCheck(name, data) ==
    IF name \in data.vf THEN Error(name, "CHECK_FAILED") ELSE OK

\* the user's loader closure of a rule: fails on the inputs listed in pf
UserLoad(name, in) ==
    IF name \in in.pf THEN [val |-> NoData, err |-> Error(name, "LOAD_FAILED")]
    ELSE [val |-> in, err |-> OK]

\* the record of one call: the operation, the rule or condition it is made on,
\* the registry of the context passed, the data a closure is invoked with, and
\* what the call returned
Ev(op, on, ctx) ==
    [op |-> op, on |-> on, ctx |-> ctx.id, with |-> <<>>, err |-> OK, val |-> FALSE]

Logged(s, ev) == [s EXCEPT !.log = Append(@, ev)]

\* the call logged at position k returned res.err
Returned(res, k) == [res EXCEPT !.s.log[k].err = res.err]

\* RuleDataFunc.Prepare
RuleDataFuncPrepare(r, ctx, s) == [err |-> OK, s |-> s]

\* RuleDataFuncValidate with NewRule's raw fn: the data is handed to the check
\* without the assertion data.(T)
RuleDataFuncValidateNoAssertion(r, ctx, s) ==
    LET g == Get(ctx) IN
    IF ~g.ok THEN [err |-> Error(r.name, "DATA_NOT_FOUND"), s |-> s]
    ELSE [err |-> UserCheck(r.name, g.data),
          s |-> Logged(s, [Ev("fn", r.name, ctx) EXCEPT !.with = <<g.data>>])]

\* RuleDataFuncValidate reading one registry shared by all calls, which holds
\* what the call that came first has bound
RuleDataFuncValidateSharedRegistry(r, ctx, s) ==
    LET g == Get(WithRegistry(ctx, ctx.id, runs[s.log[1].ctx].data)) IN
    IF ~g.ok THEN [err |-> Error(r.name, "DATA_NOT_FOUND"), s |-> s]
    ELSE IF g.data.type # RuleType(r) THEN [err |-> Error(r.name, "TYPE_MISMATCH"), s |-> s]
    ELSE [err |-> UserCheck(r.name, g.data),
          s |-> Logged(s, [Ev("fn", r.name, ctx) EXCEPT !.with = <<g.data>>])]

\* RuleDataFunc.Validate with the wrapper NewTypedRule puts around fn
RuleDataFuncValidate(r, ctx, s) ==
    LET g == Get(ctx) IN
    IF ~g.ok THEN [err |-> Error(r.name, "DATA_NOT_FOUND"), s |-> s]
    ELSE IF g.data.type # RuleType(r) THEN [err |-> Error(r.name, "TYPE_MISMATCH"), s |-> s]
    ELSE [err |-> UserCheck(r.name, g.data),
          s |-> Logged(s, [Ev("fn", r.name, ctx) EXCEPT !.with = <<g.data>>])]

\* TypedRuleDataFunc.Prepare
TypedRuleDataFuncPrepare(r, ctx, s) ==
    LET g == Get(ctx) IN
    IF ~g.ok THEN [err |-> Error(r.name, "INPUT_NOT_FOUND"), s |-> s]
    ELSE IF g.data.type # "In" THEN [err |-> Error(r.name, "TYPE_MISMATCH"), s |-> s]
    ELSE IF r.kind = "prepNil" THEN [err |-> OK, s |-> s]
    ELSE LET p == UserLoad(r.name, g.data) IN
         IF p.err # OK THEN [err |-> p.err, s |-> s]
         ELSE [err |-> OK,
               s |-> [s EXCEPT !.heap.rHas[r.name] = TRUE,
                               !.heap.rLoaded[r.name] = p.val]]

\* TypedRuleDataFuncValidate made reentrant: the check is given what the
\* loader yields for the input of this call, not the field of the rule
TypedRuleDataFuncValidateOwnLoad(r, ctx, s) ==
    LET g == Get(ctx) IN
    IF ~g.ok THEN [err |-> Error(r.name, "INPUT_NOT_FOUND"), s |-> s]
    ELSE IF g.data.type # "In" THEN [err |-> Error(r.name, "TYPE_MISMATCH"), s |-> s]
    ELSE IF ~s.heap.rHas[r.name] THEN [err |-> Error(r.name, "DATA_NOT_PREPARED"), s |-> s]
    ELSE [err |-> UserCheck(r.name, UserLoad(r.name, g.data).val),
          s |-> Logged(s, [Ev("fn", r.name, ctx) EXCEPT !.with = <<UserLoad(r.name, g.data).val>>])]

\* TypedRuleDataFunc.Validate
TypedRuleDataFuncValidate(r, ctx, s) ==
    LET g == Get(ctx) IN
    IF ~g.ok THEN [err |-> Error(r.name, "INPUT_NOT_FOUND"), s |-> s]
    ELSE IF g.data.type # "In" THEN [err |-> Error(r.name, "TYPE_MISMATCH"), s |-> s]
    ELSE IF ~s.heap.rHas[r.name] THEN [err |-> Error(r.name, "DATA_NOT_PREPARED"), s |-> s]
    ELSE [err |-> UserCheck(r.name, s.heap.rLoaded[r.name]),
          s |-> Logged(s, [Ev("fn", r.name, ctx) EXCEPT !.with = <<s.heap.rLoaded[r.name]>>])]

RECURSIVE RulePrepare(_, _, _)
RECURSIVE RuleValidate(_, _, _)
RECURSIVE OrRulesPrepareLoop(_, _, _)
RECURSIVE OrRulesValidateLoop(_, _, _, _)
RECURSIVE OrRulesValidateLoopNoEarlyReturn(_, _, _, _)

\* for _, rule := range o.Rules { err := rule.Prepare(ctx); if err != nil { return err } }
OrRulesPrepareLoop(rules, ctx, s) ==
    IF rules = <<>> THEN [err |-> OK, s |-> s]
    ELSE LET r == RulePrepare(Head(rules), ctx, s) IN
         IF r.err # OK THEN r ELSE OrRulesPrepareLoop(Tail(rules), ctx, r.s)

\* OrRules.Prepare
OrRulesPrepare(o, ctx, s) ==
    IF Len(o.rules) = 0 THEN [err |-> OK, s |-> s]
    ELSE OrRulesPrepareLoop(o.rules, ctx, s)

\* OrRulesValidateLoop that goes on after a member has succeeded and joins
\* what the members returned
OrRulesValidateLoopNoEarlyReturn(rules, ctx, errs, s) ==
    IF rules = <<>> THEN [err |-> JoinError(errs), s |-> s]
    ELSE LET r == RuleValidate(Head(rules), ctx, s) IN
         OrRulesValidateLoopNoEarlyReturn(Tail(rules), ctx, Append(errs, r.err), r.s)

\* for _, rule := range o.Rules { err := rule.Validate(ctx);
\*     if err == nil { return nil }; errs = append(errs, err) }; return errors.Join(errs...)
OrRulesValidateLoop(rules, ctx, errs, s) ==
    IF rules = <<>> THEN [err |-> JoinError(errs), s |-> s]
    ELSE LET r == RuleValidate(Head(rules), ctx, s) IN
         IF r.err = OK THEN [err |-> OK, s |-> r.s]
         ELSE OrRulesValidateLoop(Tail(rules), ctx, Append(errs, r.err), r.s)

\* OrRules.Validate
OrRulesValidate(o, ctx, s) ==
    IF Len(o.rules) = 0 THEN [err |-> OK, s |-> s]
    ELSE OrRulesValidateLoop(o.rules, ctx, <<>>, s)

\* Rule.Prepare, dispatched on the dynamic type; the call is logged
RulePrepare(r, ctx, s) ==
    LET s1 == Logged(s, Ev("Rule.Prepare", r.name, ctx)) IN
    Returned(CASE r.kind = "data" -> RuleDataFuncPrepare(r, ctx, s1)
               [] r.kind = "or" -> OrRulesPrepare(r, ctx, s1)
               [] OTHER -> TypedRuleDataFuncPrepare(r, ctx, s1), Len(s1.log))

\* Rule.Validate, dispatched on the dynamic type; the call is logged
RuleValidate(r, ctx, s) ==
    LET s1 == Logged(s, Ev("Rule.Validate", r.name, ctx)) IN
    Returned(CASE r.kind = "data" -> RuleDataFuncValidate(r, ctx, s1)
               [] r.kind = "or" -> OrRulesValidate(r, ctx, s1)
               [] OTHER -> TypedRuleDataFuncValidate(r, ctx, s1), Len(s1.log))

(***************************************************************************)
(* Conditions                                                              *)
(***************************************************************************)
\* a nil Condition
NilCondition == [kind |-> "nil", name |-> 0]

\* NewTypedCondition[In](name, fn): a pure ConditionFunc reading the registry
NewTypedCondition(name) == [kind |-> "func", name |-> name]

\* IsA[T](name): a typeChecker for the type T
IsA(type, name) == [kind |-> "isA", name |-> name, type |-> type]

\* NewTypedConditionWithPrepare[In, T](name, prepare, condition)
NewTypedConditionWithPrepare(name) == [kind |-> "typedPrep", name |-> name]

\* Not(condition): a NotCondition around condition, which may be nil
Not(condition) == [kind |-> "not", name |-> condition.name, inner |-> condition]

\* the panic of a method call through a nil interface value; it unwinds the
\* callers the way a returned error does, and nothing runs after it
Panic == Error(0, "panic")

\* the condition objects trees are built from: odd names are pure,
\* even names load data in Prepare
CondPool ==
    { IF n % 2 = 1 THEN NewTypedCondition(n) ELSE NewTypedConditionWithPrepare(n) : n \in CondNames }

ImpureCondNames == { n \in CondNames : n % 2 = 0 }

\* the user's predicate closure: holds on the data listed in cv
UserPredicate(name, data) == name \in data.cv

\* the user's loader closure of a condition: fails on the inputs listed in lf
UserCondLoad(name, in) ==
    IF name \in in.lf THEN [val |-> NoData, err |-> Error(name, "COND_LOAD_FAILED")]
    ELSE [val |-> in, err |-> OK]

RECURSIVE IsPure(_)
RECURSIVE ConditionPrepare(_, _, _)
RECURSIVE ConditionIsValid(_, _, _)
RECURSIVE ConditionName(_)

\* Condition.IsPure; NotCondition.IsPure is false around nil and the inner
\* condition's answer otherwise
IsPure(c) ==
    IF c.kind = "not"
    THEN IF c.inner = NilCondition THEN FALSE ELSE IsPure(c.inner)
    ELSE c.kind \in {"func", "isA"}

\* TypedConditionWithPrepare.Prepare
TypedConditionWithPreparePrepare(c, ctx, s) ==
    LET g == GetAs(ctx) IN
    IF ~g.ok THEN [err |-> Error(c.name, "TYPE_MISMATCH"), s |-> s]
    ELSE LET p == UserCondLoad(c.name, g.data) IN
         IF p.err # OK THEN [err |-> p.err, s |-> s]
         ELSE [err |-> OK,
               s |-> [s EXCEPT !.heap.cLoaded[c.name] = p.val,
                               !.heap.cHas[c.name] = TRUE]]

\* NotCondition.Prepare: return n.condition.Prepare(ctx), with no test for nil
NotConditionPrepare(c, ctx, s) ==
    IF c.inner = NilCondition THEN [err |-> Panic, s |-> s]
    ELSE ConditionPrepare(c.inner, ctx, s)

\* Condition.Prepare, dispatched on the dynamic type; the call on a condition
\* built by the user is logged
ConditionPrepare(c, ctx, s) ==
    IF c.kind = "not" THEN NotConditionPrepare(c, ctx, s)
    ELSE LET s1 == Logged(s, Ev("Condition.Prepare", c.name, ctx)) IN
         Returned(IF c.kind \in {"func", "isA"} THEN [err |-> OK, s |-> s1]
                  ELSE TypedConditionWithPreparePrepare(c, ctx, s1), Len(s1.log))

\* the predicate NewTypedCondition wraps around fn
TypedConditionPredicate(c, ctx) ==
    LET g == Get(ctx) IN
    IF ~g.ok THEN FALSE
    ELSE IF g.data.type # "In" THEN FALSE
    ELSE UserPredicate(c.name, g.data)

\* typeChecker.IsValid testing that a registry is bound and nothing else
TypeCheckerIsValidAnyType(c, ctx) ==
    LET g == Get(ctx) IN
    IF ~g.ok THEN FALSE ELSE TRUE

\* typeChecker.IsValid: reflect.TypeOf(data) == c.targetType
TypeCheckerIsValid(c, ctx) ==
    LET g == Get(ctx) IN
    IF ~g.ok THEN FALSE ELSE g.data.type = c.type

\* TypedConditionWithPrepare.IsValid
TypedConditionWithPrepareIsValid(c, ctx, s) ==
    LET g == GetAs(ctx) IN
    IF ~g.ok THEN FALSE
    ELSE IF ~s.heap.cHas[c.name] THEN FALSE
    ELSE UserPredicate(c.name, s.heap.cLoaded[c.name])

\* NotConditionIsValid that hands back what the inner condition answered
NotConditionIsValidNoNegation(c, ctx, s) ==
    IF c.inner = NilCondition THEN [val |-> FALSE, s |-> s]
    ELSE LET r == ConditionIsValid(c.inner, ctx, s) IN [val |-> r.val, s |-> r.s]

\* NotCondition.IsValid: false around nil, the negation otherwise
NotConditionIsValid(c, ctx, s) ==
    IF c.inner = NilCondition THEN [val |-> FALSE, s |-> s]
    ELSE LET r == ConditionIsValid(c.inner, ctx, s) IN [val |-> ~r.val, s |-> r.s]

\* the loaded data TypedConditionWithPrepare.IsValid invokes the predicate
\* with, if it invokes it
TypedConditionWithPrepareArg(c, ctx, s) ==
    IF GetAs(ctx).ok /\ s.heap.cHas[c.name] THEN <<s.heap.cLoaded[c.name]>> ELSE <<>>

\* Condition.IsValid, dispatched on the dynamic type; the call on a condition
\* built by the user is logged
ConditionIsValid(c, ctx, s) ==
    IF c.kind = "not" THEN NotConditionIsValid(c, ctx, s)
    ELSE LET val == CASE c.kind = "func" -> TypedConditionPredicate(c, ctx)
                      [] c.kind = "isA" -> TypeCheckerIsValid(c, ctx)
                      [] OTHER -> TypedConditionWithPrepareIsValid(c, ctx, s)
             arg == IF c.kind \in {"func", "isA"} THEN <<>>
                    ELSE TypedConditionWithPrepareArg(c, ctx, s) IN
         [val |-> val,
          s |-> Logged(s, [Ev("IsValid", c.name, ctx) EXCEPT !.val = val, !.with = arg])]

\* Condition.Name; NotCondition.Name calls n.condition.Name() with no test for
\* nil, so it has no value around nil
ConditionName(c) ==
    CASE c.kind = "nil" -> "nil"
      [] c.kind = "not" /\ c.inner # NilCondition -> "Not -> " \o ConditionName(c.inner)
      [] c.kind \in {"func", "typedPrep", "isA"} -> ToString(c.name)

(***************************************************************************)
(* Tree construction                                                       *)
(***************************************************************************)
Rules(rules) == [kind |-> "leaf", rules |-> rules]
Node(condition, children) == [kind |-> "node", cond |-> condition, children |-> children]
AllOf(children) == [kind |-> "allOf", children |-> children]
AnyOf(children) == [kind |-> "anyOf", name |-> "", children |-> children]
Root(children) == [kind |-> "anyOf", name |-> "root", children |-> children]
Either(condition, left, right) ==
    [kind |-> "either", cond |-> condition, left |-> left, right |-> right]

(***************************************************************************)
(* PrepareConditions                                                       *)
(***************************************************************************)
RECURSIVE PrepareConditions(_, _, _)
RECURSIVE PrepareEach(_, _, _)

\* for _, child := range children { err := child.PrepareConditions(ctx);
\*                                  if err != nil { return err } }
PrepareEach(children, ctx, s) ==
    IF children = <<>> THEN [err |-> OK, s |-> s]
    ELSE LET r == PrepareConditions(Head(children), ctx, s) IN
         IF r.err # OK THEN r ELSE PrepareEach(Tail(children), ctx, r.s)

\* LeafNode.PrepareConditions
LeafNodePrepareConditions(n, ctx, s) == [err |-> OK, s |-> s]

\* ConditionNodePrepareConditions that skips the early test of a pure
\* condition: the condition and the children are always prepared
ConditionNodePrepareConditionsNoPruning(n, ctx, s) ==
    IF n.cond = NilCondition THEN [err |-> OK, s |-> s]
    ELSE LET p == ConditionPrepare(n.cond, ctx, s) IN
         IF p.err # OK THEN p ELSE PrepareEach(n.children, ctx, p.s)

\* ConditionNode.PrepareConditions
ConditionNodePrepareConditions(n, ctx, s) ==
    IF n.cond = NilCondition THEN [err |-> OK, s |-> s]
    ELSE LET iv == IF IsPure(n.cond) THEN ConditionIsValid(n.cond, ctx, s)
                   ELSE [val |-> TRUE, s |-> s] IN
         IF ~iv.val THEN [err |-> OK, s |-> iv.s]
         ELSE LET p == ConditionPrepare(n.cond, ctx, iv.s) IN
              IF p.err # OK THEN p ELSE PrepareEach(n.children, ctx, p.s)

\* AllOfNode.PrepareConditions
AllOfNodePrepareConditions(n, ctx, s) == PrepareEach(n.children, ctx, s)

\* AnyOfNode.PrepareConditions
AnyOfNodePrepareConditions(n, ctx, s) == PrepareEach(n.children, ctx, s)

\* ConditionEitherPrepareConditions that prepares, under a pure condition, the
\* list the condition does not select
ConditionEitherPrepareConditionsOtherSide(n, ctx, s) ==
    IF n.cond = NilCondition THEN [err |-> OK, s |-> s]
    ELSE IF IsPure(n.cond)
    THEN LET iv == ConditionIsValid(n.cond, ctx, s) IN
         PrepareEach(IF iv.val THEN n.right ELSE n.left, ctx, iv.s)
    ELSE LET p == ConditionPrepare(n.cond, ctx, s) IN
         IF p.err # OK THEN p
         ELSE LET l == PrepareEach(n.left, ctx, p.s) IN
              IF l.err # OK THEN l ELSE PrepareEach(n.right, ctx, l.s)

\* ConditionEither.PrepareConditions
ConditionEitherPrepareConditions(n, ctx, s) ==
    IF n.cond = NilCondition THEN [err |-> OK, s |-> s]
    ELSE IF IsPure(n.cond)
    THEN LET iv == ConditionIsValid(n.cond, ctx, s) IN
         PrepareEach(IF iv.val THEN n.left ELSE n.right, ctx, iv.s)
    ELSE LET p == ConditionPrepare(n.cond, ctx, s) IN
         IF p.err # OK THEN p
         ELSE LET l == PrepareEach(n.left, ctx, p.s) IN
              IF l.err # OK THEN l ELSE PrepareEach(n.right, ctx, l.s)

\* Evaluable.PrepareConditions, dispatched on the dynamic type
PrepareConditions(n, ctx, s) ==
    CASE n.kind = "leaf" -> LeafNodePrepareConditions(n, ctx, s)
      [] n.kind = "node" -> ConditionNodePrepareConditions(n, ctx, s)
      [] n.kind = "allOf" -> AllOfNodePrepareConditions(n, ctx, s)
      [] n.kind = "anyOf" -> AnyOfNodePrepareConditions(n, ctx, s)
      [] n.kind = "either" -> ConditionEitherPrepareConditions(n, ctx, s)

(***************************************************************************)
(* Evaluate                                                                *)
(***************************************************************************)
RECURSIVE Evaluate(_, _, _, _)
RECURSIVE StampRules(_, _, _)
RECURSIVE CollectMatched(_, _, _, _, _)
RECURSIVE AllOfLoop(_, _, _, _, _)
RECURSIVE AnyOfLoop(_, _, _, _, _, _)

\* fmt.Sprintf("%s -> %s", path, tag)
PathJoin(path, tag) == path \o " -> " \o tag

RECURSIVE StampRulesNoLeafTag(_, _, _)
\* StampRules that leaves the tag of the leaf out of the path
StampRulesNoLeafTag(rules, path, s) ==
    IF rules = <<>> THEN s
    ELSE StampRulesNoLeafTag(Tail(rules), path,
             [s EXCEPT !.heap.path[Head(rules).name] = PathJoin(path, RuleName(Head(rules)))])

\* for _, rule := range n.Rules { rule.SetExecutionPath(path -> leafNode -> name) }
StampRules(rules, path, s) ==
    IF rules = <<>> THEN s
    ELSE StampRules(Tail(rules), path,
             [s EXCEPT !.heap.path[Head(rules).name] =
                 PathJoin(PathJoin(path, "leafNode"), RuleName(Head(rules)))])

\* LeafNodeEvaluate that returns its rules and sets no execution path
LeafNodeEvaluateNoStamp(n, ctx, path, s) ==
    [ok |-> TRUE, rules |-> n.rules, s |-> s]

\* LeafNodeEvaluate that hands out a rule once only: the rules an earlier
\* Evaluate has stamped are left out
LeafNodeEvaluateUnstampedOnly(n, ctx, path, s) ==
    [ok |-> TRUE, rules |-> SelectSeq(n.rules, LAMBDA r : s.heap.path[r.name] = ""),
     s |-> StampRules(n.rules, path, s)]

\* LeafNode.Evaluate
LeafNodeEvaluate(n, ctx, path, s) ==
    [ok |-> TRUE, rules |-> n.rules, s |-> StampRules(n.rules, path, s)]

\* for _, evaluable := range list { ok, rules := evaluable.Evaluate(ctx, path);
\*                                  if ok { matchRules = append(matchRules, rules...) } }
CollectMatched(list, ctx, path, acc, s) ==
    IF list = <<>> THEN [rules |-> acc, s |-> s]
    ELSE LET r == Evaluate(Head(list), ctx, path, s) IN
         CollectMatched(Tail(list), ctx, path,
                        IF r.ok THEN acc \o r.rules ELSE acc, r.s)

\* ConditionNodeEvaluate that reports a match only when a rule was collected
ConditionNodeEvaluateMatchedIfRules(n, ctx, path, s) ==
    IF n.cond = NilCondition THEN [ok |-> FALSE, rules |-> <<>>, s |-> s]
    ELSE LET iv == ConditionIsValid(n.cond, ctx, s) IN
         IF ~iv.val THEN [ok |-> FALSE, rules |-> <<>>, s |-> iv.s]
         ELSE LET c == CollectMatched(n.children, ctx,
                                      PathJoin(path, ConditionName(n.cond)), <<>>, iv.s) IN
              [ok |-> Len(c.rules) > 0, rules |-> c.rules, s |-> c.s]

\* ConditionNode.Evaluate
ConditionNodeEvaluate(n, ctx, path, s) ==
    IF n.cond = NilCondition THEN [ok |-> FALSE, rules |-> <<>>, s |-> s]
    ELSE LET iv == ConditionIsValid(n.cond, ctx, s) IN
         IF ~iv.val THEN [ok |-> FALSE, rules |-> <<>>, s |-> iv.s]
         ELSE LET c == CollectMatched(n.children, ctx,
                                      PathJoin(path, ConditionName(n.cond)), <<>>, iv.s) IN
              [ok |-> TRUE, rules |-> c.rules, s |-> c.s]

RECURSIVE AllOfLoopNoShortCircuit(_, _, _, _, _)
\* AllOfLoop that notes the failure and goes on to the remaining children
AllOfLoopNoShortCircuit(children, ctx, path, acc, s) ==
    IF children = <<>> THEN [ok |-> TRUE, rules |-> acc, s |-> s]
    ELSE LET r == Evaluate(Head(children), ctx, PathJoin(path, "allOfNode"), s)
             rest == AllOfLoopNoShortCircuit(Tail(children), ctx, path, acc \o r.rules, r.s) IN
         IF r.ok THEN rest ELSE [ok |-> FALSE, rules |-> <<>>, s |-> rest.s]

\* the loop of AllOfNode.Evaluate: the first child that does not match ends it
AllOfLoop(children, ctx, path, acc, s) ==
    IF children = <<>> THEN [ok |-> TRUE, rules |-> acc, s |-> s]
    ELSE LET r == Evaluate(Head(children), ctx, PathJoin(path, "allOfNode"), s) IN
         IF r.ok THEN AllOfLoop(Tail(children), ctx, path, acc \o r.rules, r.s)
         ELSE [ok |-> FALSE, rules |-> <<>>, s |-> r.s]

\* AllOfNode.Evaluate
AllOfNodeEvaluate(n, ctx, path, s) ==
    IF Len(n.children) = 0 THEN [ok |-> TRUE, rules |-> <<>>, s |-> s]
    ELSE AllOfLoop(n.children, ctx, path, <<>>, s)

\* AnyOfLoop that stops at the first child that matches
AnyOfLoopFirstMatch(children, ctx, path, anyOk, acc, s) ==
    IF children = <<>> \/ anyOk THEN [anyOk |-> anyOk, rules |-> acc, s |-> s]
    ELSE LET r == Evaluate(Head(children), ctx, path, s) IN
         AnyOfLoop(Tail(children), ctx, path, anyOk \/ r.ok,
                   IF r.ok THEN acc \o r.rules ELSE acc, r.s)

\* the loop of AnyOfNode.Evaluate: every child is evaluated
AnyOfLoop(children, ctx, path, anyOk, acc, s) ==
    IF children = <<>> THEN [anyOk |-> anyOk, rules |-> acc, s |-> s]
    ELSE LET r == Evaluate(Head(children), ctx, path, s) IN
         AnyOfLoop(Tail(children), ctx, path, anyOk \/ r.ok,
                   IF r.ok THEN acc \o r.rules ELSE acc, r.s)

\* AnyOfNodeEvaluate without the test for an empty child list
AnyOfNodeEvaluateNoEmptyCase(n, ctx, path, s) ==
    LET nodeName == IF n.name = "" THEN "anyOfNode" ELSE n.name
        l == AnyOfLoop(n.children, ctx, PathJoin(path, nodeName), FALSE, <<>>, s) IN
    IF ~l.anyOk THEN [ok |-> FALSE, rules |-> <<>>, s |-> l.s]
    ELSE [ok |-> TRUE, rules |-> l.rules, s |-> l.s]

\* AnyOfNode.Evaluate
AnyOfNodeEvaluate(n, ctx, path, s) ==
    IF Len(n.children) = 0 THEN [ok |-> TRUE, rules |-> <<>>, s |-> s]
    ELSE LET nodeName == IF n.name = "" THEN "anyOfNode" ELSE n.name
             l == AnyOfLoop(n.children, ctx, PathJoin(path, nodeName), FALSE, <<>>, s) IN
         IF ~l.anyOk THEN [ok |-> FALSE, rules |-> <<>>, s |-> l.s]
         ELSE [ok |-> TRUE, rules |-> l.rules, s |-> l.s]

\* ConditionEitherEvaluate that reports a match whenever a branch was selected
ConditionEitherEvaluateAlwaysMatched(n, ctx, path, s) ==
    LET iv == IF n.cond = NilCondition THEN [val |-> FALSE, s |-> s]
              ELSE ConditionIsValid(n.cond, ctx, s)
        c == IF iv.val
             THEN CollectMatched(n.left, ctx,
                      PathJoin(path, ConditionName(n.cond) \o " (true)"), <<>>, iv.s)
             ELSE CollectMatched(n.right, ctx,
                      PathJoin(path, ConditionName(n.cond) \o " (false)"), <<>>, iv.s) IN
    [ok |-> TRUE, rules |-> c.rules, s |-> c.s]

\* ConditionEither.Evaluate
ConditionEitherEvaluate(n, ctx, path, s) ==
    LET iv == IF n.cond = NilCondition THEN [val |-> FALSE, s |-> s]
              ELSE ConditionIsValid(n.cond, ctx, s)
        c == IF iv.val
             THEN CollectMatched(n.left, ctx,
                      PathJoin(path, ConditionName(n.cond) \o " (true)"), <<>>, iv.s)
             ELSE CollectMatched(n.right, ctx,
                      PathJoin(path, ConditionName(n.cond) \o " (false)"), <<>>, iv.s) IN
    [ok |-> Len(c.rules) > 0, rules |-> c.rules, s |-> c.s]

\* Evaluable.Evaluate, dispatched on the dynamic type
Evaluate(n, ctx, path, s) ==
    CASE n.kind = "leaf" -> LeafNodeEvaluate(n, ctx, path, s)
      [] n.kind = "node" -> ConditionNodeEvaluate(n, ctx, path, s)
      [] n.kind = "allOf" -> AllOfNodeEvaluate(n, ctx, path, s)
      [] n.kind = "anyOf" -> AnyOfNodeEvaluate(n, ctx, path, s)
      [] n.kind = "either" -> ConditionEitherEvaluate(n, ctx, path, s)

(***************************************************************************)
(* Inputs                                                                  *)
(***************************************************************************)
SeqsUpTo(S, n) == UNION { [1..k -> S] : k \in 0..n }

\* single-rule leaves, bare or guarded by one condition
LeafTrees == { Rules(<<r>>) : r \in RulePool }
GuardedTrees == { Node(c, <<l>>) : c \in CondPool, l \in LeafTrees }
Kids == LeafTrees \cup GuardedTrees

\* the trees handed to Validate: a root over single-rule leaves, bare or
\* guarded by the condition of the same name
RootKids == LeafTrees \cup { k \in GuardedTrees : k.cond.name = k.children[1].rules[1].name }
RootTrees == { Root(ch) : ch \in SeqsUpTo(RootKids, MaxChildren) }

RECURSIVE RulesIn(_)
RECURSIVE CondsIn(_)
RECURSIVE RulesInAll(_)
RECURSIVE CondsInAll(_)

\* names of the rules and conditions a tree refers to
RulesInAll(list) == IF list = <<>> THEN {} ELSE RulesIn(Head(list)) \cup RulesInAll(Tail(list))
CondsInAll(list) == IF list = <<>> THEN {} ELSE CondsIn(Head(list)) \cup CondsInAll(Tail(list))
RulesIn(n) ==
    CASE n.kind = "leaf" -> { n.rules[i].name : i \in 1..Len(n.rules) }
      [] n.kind = "either" -> RulesInAll(n.left) \cup RulesInAll(n.right)
      [] OTHER -> RulesInAll(n.children)
CondsIn(n) ==
    CASE n.kind = "leaf" -> {}
      [] n.kind = "node" -> ({n.cond.name} \ {0}) \cup CondsInAll(n.children)
      [] n.kind = "either" -> ({n.cond.name} \ {0}) \cup CondsInAll(n.left) \cup CondsInAll(n.right)
      [] OTHER -> CondsInAll(n.children)

\* the data values that differ in what the closures of tree do on them, and
\* one value of another type
DataOver(rules, conds) ==
    [type : {"In"}, vf : SUBSET rules, pf : SUBSET (rules \cap PrepRuleNames),
     cv : SUBSET conds, lf : SUBSET (conds \cap ImpureCondNames)]
    \cup {[type |-> "Other", vf |-> {}, pf |-> {}, cv |-> {}, lf |-> {}]}
DataFor(tree) == DataOver(RulesIn(tree), CondsIn(tree))

\* the contexts a tree is run with: no registry, or a registry holding a value
ContextsFor(tree, id) ==
    {Background} \cup { WithRegistry(Background, id, d) : d \in DataFor(tree) }

\* the contexts that differ for Evaluate and PrepareConditions, which call no rule
ConditionContextsFor(tree, id) ==
    {Background} \cup { WithRegistry(Background, id, d) : d \in DataOver({}, CondsIn(tree)) }

HookNames ==
    {"AfterPrepareConditions", "AfterEvaluateConditions", "AfterPrepareRules", "AfterValidateRules"}

\* ProcessingHooks values, as the set of the slots that are not nil
HookSets == {{}, HookNames} \cup { {h} : h \in HookNames }

\* the fields of freshly constructed rules and conditions
FreshHeap ==
    [rHas |-> [n \in RuleNames |-> FALSE], rLoaded |-> [n \in RuleNames |-> NoData],
     cHas |-> [n \in CondNames |-> FALSE], cLoaded |-> [n \in CondNames |-> NoData],
     path |-> [n \in 0..NumRules |-> ""]]

\* if hooks.X != nil { hooks.X(ctx) }
CallHook(hooks, h, ctx, s) == IF h \in hooks THEN Logged(s, Ev(h, 0, ctx)) ELSE s

S == [heap |-> heap, log |-> log]

IdleV == [pc |-> "idle", err |-> OK, rules |-> <<>>, prepared |-> <<>>, errs |-> <<>>, i |-> 0, result |-> <<>>]
\* owner and cands are history: the target each entry of errs came from, and
\* the candidate rules Evaluate returned for each target so far
IdleM == [pc |-> "idle", err |-> OK, k |-> 0, i |-> 0, j |-> 0, rules |-> <<>>,
          preparedRules |-> [t \in 1..MaxTargets |-> <<>>], errs |-> <<>>,
          rulesCounter |-> 0, result |-> <<>>, owner |-> <<>>, cands |-> <<>>]
IdleE == [pc |-> "idle", err |-> OK, at |-> 0, ok |-> FALSE, rules |-> <<>>]

\* the two calls of ValidateWithData that share a tree
Procs == {1, 2}
IdleRun == [pc |-> "idle", data |-> NoData, ctx |-> Background, after |-> FALSE, err |-> OK,
            rules |-> <<>>, prepared |-> <<>>, errs |-> <<>>, i |-> 0, result |-> <<>>]
IdleRuns == [p \in Procs |-> IdleRun]

(***************************************************************************)
(* Validate                                                                *)
(***************************************************************************)
InitValidate ==
    /\ \E tree \in RootTrees : \E ctx \in ContextsFor(tree, 1) : \E hooks \in HookSets :
          input = [tree |-> tree, ctx |-> ctx, hooks |-> hooks, name |-> "tree"]
    /\ heap = FreshHeap
    /\ log = <<>>
    /\ v = [IdleV EXCEPT !.pc = "PrepareConditions"]
    /\ m = IdleM
    /\ e = IdleE
    /\ runs = IdleRuns
    /\ ctxs = <<>>

\* ValidatePrepareConditions without the early return: the error is recorded
\* and the run goes on
ValidatePrepareConditionsNoReturn ==
    /\ v.pc = "PrepareConditions"
    /\ LET r == PrepareConditions(input.tree, input.ctx,
                                  Logged(S, Ev("PrepareConditions", 0, input.ctx)))
           s2 == CallHook(input.hooks, "AfterPrepareConditions", input.ctx, r.s) IN
       /\ heap' = s2.heap
       /\ log' = s2.log
       /\ v' = [v EXCEPT !.pc = "Evaluate", !.err = r.err]
    /\ UNCHANGED <<ctxs, runs, input, m, e>>

\* err := tree.PrepareConditions(ctx); if err != nil { return errors.Join(err) };
\* AfterPrepareConditions hook
ValidatePrepareConditions ==
    /\ v.pc = "PrepareConditions"
    /\ LET r == PrepareConditions(input.tree, input.ctx,
                                  Logged(S, Ev("PrepareConditions", 0, input.ctx))) IN
       IF r.err # OK
       THEN /\ heap' = r.s.heap
            /\ log' = r.s.log
            /\ v' = [v EXCEPT !.pc = "done", !.err = r.err, !.result = Join(<<r.err>>)]
       ELSE LET s2 == CallHook(input.hooks, "AfterPrepareConditions", input.ctx, r.s) IN
            /\ heap' = s2.heap
            /\ log' = s2.log
            /\ v' = [v EXCEPT !.pc = "Evaluate"]
    /\ UNCHANGED <<ctxs, runs, input, m, e>>

\* _, rules := tree.Evaluate(ctx, name); AfterEvaluateConditions hook;
\* errs and preparedRules are made empty
ValidateEvaluate ==
    /\ v.pc = "Evaluate"
    /\ LET r == Evaluate(input.tree, input.ctx, input.name,
                         Logged(S, Ev("Evaluate", 0, input.ctx)))
           s2 == CallHook(input.hooks, "AfterEvaluateConditions", input.ctx, r.s) IN
       /\ heap' = s2.heap
       /\ log' = s2.log
       /\ v' = [v EXCEPT !.pc = "PrepareRules", !.rules = r.rules, !.errs = <<>>,
                         !.prepared = <<>>, !.i = 1]
    /\ UNCHANGED <<ctxs, runs, input, m, e>>

\* ValidatePrepareRule without the continue: a rule whose Prepare failed is
\* appended to preparedRules all the same
ValidatePrepareRuleNoContinue ==
    /\ v.pc = "PrepareRules"
    /\ v.i <= Len(v.rules)
    /\ LET rule == v.rules[v.i]
           r == RulePrepare(rule, input.ctx, S) IN
       /\ heap' = r.s.heap
       /\ log' = r.s.log
       /\ v' = IF r.err # OK
               THEN [v EXCEPT !.errs = Append(@, r.err), !.prepared = Append(@, rule), !.i = @ + 1]
               ELSE [v EXCEPT !.prepared = Append(@, rule), !.i = @ + 1]
    /\ UNCHANGED <<ctxs, runs, input, m, e>>

\* one iteration of: for _, rule := range rules { err := rule.Prepare(ctx) ... }
ValidatePrepareRule ==
    /\ v.pc = "PrepareRules"
    /\ v.i <= Len(v.rules)
    /\ LET rule == v.rules[v.i]
           r == RulePrepare(rule, input.ctx, S) IN
       /\ heap' = r.s.heap
       /\ log' = r.s.log
       /\ v' = IF r.err # OK
               THEN [v EXCEPT !.errs = Append(@, r.err), !.i = @ + 1]
               ELSE [v EXCEPT !.prepared = Append(@, rule), !.i = @ + 1]
    /\ UNCHANGED <<ctxs, runs, input, m, e>>

\* ValidateAfterPrepareRules testing and calling the slot of the next phase
ValidateAfterPrepareRulesWrongSlot ==
    /\ v.pc = "PrepareRules"
    /\ v.i > Len(v.rules)
    /\ LET s2 == CallHook(input.hooks, "AfterValidateRules", input.ctx, S) IN
       /\ heap' = s2.heap
       /\ log' = s2.log
    /\ v' = [v EXCEPT !.pc = "ValidateRules", !.i = 1]
    /\ UNCHANGED <<ctxs, runs, input, m, e>>

\* the loop over rules is over: AfterPrepareRules hook
ValidateAfterPrepareRules ==
    /\ v.pc = "PrepareRules"
    /\ v.i > Len(v.rules)
    /\ LET s2 == CallHook(input.hooks, "AfterPrepareRules", input.ctx, S) IN
       /\ heap' = s2.heap
       /\ log' = s2.log
    /\ v' = [v EXCEPT !.pc = "ValidateRules", !.i = 1]
    /\ UNCHANGED <<ctxs, runs, input, m, e>>

\* one iteration of: for _, rule := range preparedRules { err := rule.Validate(ctx) ... }
ValidateValidateRule ==
    /\ v.pc = "ValidateRules"
    /\ v.i <= Len(v.prepared)
    /\ LET r == RuleValidate(v.prepared[v.i], input.ctx, S) IN
       /\ heap' = r.s.heap
       /\ log' = r.s.log
       /\ v' = IF r.err # OK
               THEN [v EXCEPT !.errs = Append(@, r.err), !.i = @ + 1]
               ELSE [v EXCEPT !.i = @ + 1]
    /\ UNCHANGED <<ctxs, runs, input, m, e>>

\* the loop over preparedRules is over: AfterValidateRules hook;
\* return errors.Join(errs...)
ValidateReturn ==
    /\ v.pc = "ValidateRules"
    /\ v.i > Len(v.prepared)
    /\ LET s2 == CallHook(input.hooks, "AfterValidateRules", input.ctx, S) IN
       /\ heap' = s2.heap
       /\ log' = s2.log
    /\ v' = [v EXCEPT !.pc = "done", !.result = Join(v.errs)]
    /\ UNCHANGED <<ctxs, runs, input, m, e>>

NextValidate ==
    \/ ValidatePrepareConditions
    \/ ValidateEvaluate
    \/ ValidatePrepareRule
    \/ ValidateAfterPrepareRules
    \/ ValidateValidateRule
    \/ ValidateReturn

SpecValidate == InitValidate /\ [][NextValidate]_vars

RECURSIVE PrepareRulesLoop(_, _, _, _, _)
RECURSIVE ValidateRulesLoop(_, _, _, _)

\* for _, rule := range rules { ... rule.Prepare(ctx) ... }, run to its end
PrepareRulesLoop(rules, ctx, errs, prepared, s) ==
    IF rules = <<>> THEN [errs |-> errs, prepared |-> prepared, s |-> s]
    ELSE LET r == RulePrepare(Head(rules), ctx, s) IN
         IF r.err # OK
         THEN PrepareRulesLoop(Tail(rules), ctx, Append(errs, r.err), prepared, r.s)
         ELSE PrepareRulesLoop(Tail(rules), ctx, errs, Append(prepared, Head(rules)), r.s)

\* for _, rule := range preparedRules { ... rule.Validate(ctx) ... }, run to its end
ValidateRulesLoop(prepared, ctx, errs, s) ==
    IF prepared = <<>> THEN [errs |-> errs, s |-> s]
    ELSE LET r == RuleValidate(Head(prepared), ctx, s) IN
         ValidateRulesLoop(Tail(prepared), ctx,
                           IF r.err # OK THEN Append(errs, r.err) ELSE errs, r.s)

\* a whole call Validate(ctx, tree, hooks, name) made in state s: what it
\* returns and the state it leaves
ValidateCall(tree, ctx, hooks, name, s) ==
    LET pc == PrepareConditions(tree, ctx, Logged(s, Ev("PrepareConditions", 0, ctx))) IN
    IF pc.err # OK THEN [result |-> Join(<<pc.err>>), s |-> pc.s]
    ELSE LET s1 == CallHook(hooks, "AfterPrepareConditions", ctx, pc.s)
             ev == Evaluate(tree, ctx, name, Logged(s1, Ev("Evaluate", 0, ctx)))
             s2 == CallHook(hooks, "AfterEvaluateConditions", ctx, ev.s)
             pr == PrepareRulesLoop(ev.rules, ctx, <<>>, <<>>, s2)
             s3 == CallHook(hooks, "AfterPrepareRules", ctx, pr.s)
             vr == ValidateRulesLoop(pr.prepared, ctx, pr.errs, s3)
             s4 == CallHook(hooks, "AfterValidateRules", ctx, vr.s) IN
         [result |-> Join(vr.errs), s |-> s4]

\* the step-wise run and the whole call agree
ValidateStepsAgree ==
    v.pc = "done" =>
        LET c == ValidateCall(input.tree, input.ctx, input.hooks, input.name,
                              [heap |-> FreshHeap, log |-> <<>>]) IN
        /\ v.result = c.result
        /\ heap = c.s.heap
        /\ log = c.s.log

(***************************************************************************)
(* Properties of Validate                                                  *)
(***************************************************************************)
Calls(ops) == SelectSeq(log, LAMBDA x : x.op \in ops)
MapSeq(f(_), q) == [i \in 1..Len(q) |-> f(q[i])]
OnOf(x) == x.on
ErrOf(x) == x.err
NameOf(r) == r.name
Failed(q) == SelectSeq(q, LAMBDA x : x.err # OK)
Succeeded(q) == SelectSeq(q, LAMBDA x : x.err = OK)

\* C1: when PrepareConditions on the root returns an error, Validate returns
\* that error as the only failure, and the calls made are the root's
\* PrepareConditions and the condition calls under it: no Evaluate, no
\* Rule.Prepare, no Rule.Validate, no hook.
C1_PrepareConditionsErrorAborts ==
    v.err # OK =>
        /\ v.pc = "done"
        /\ v.result = <<v.err>>
        /\ Calls({"Evaluate", "Rule.Prepare", "Rule.Validate", "fn"} \cup HookNames) = <<>>
        /\ log[1].op = "PrepareConditions"
        /\ log[Len(log)].op = "Condition.Prepare"
        /\ log[Len(log)].err = v.err

C1_Witness ==
    /\ v.pc = "done"
    /\ v.err # OK
    /\ input.hooks = HookNames
    /\ Len(input.tree.children) = 2

\* C2: at the return of a Validate run that passed condition preparation,
\* every candidate rule had Prepare called, in order; Rule.Validate was called
\* on exactly the candidates whose Prepare returned nil, in order; the result
\* holds the error of every failed Prepare followed by the error of every
\* failed Rule.Validate; and it is empty exactly when no call failed.
C2_PartialFailure ==
    (v.pc = "done" /\ v.err = OK) =>
        LET P == Calls({"Rule.Prepare"})
            V == Calls({"Rule.Validate"}) IN
        /\ MapSeq(OnOf, P) = MapSeq(NameOf, v.rules)
        /\ MapSeq(OnOf, V) = MapSeq(OnOf, Succeeded(P))
        /\ v.result = MapSeq(ErrOf, Failed(P)) \o MapSeq(ErrOf, Failed(V))
        /\ (v.result = <<>>) <=> (Failed(P) = <<>> /\ Failed(V) = <<>>)

C2_Witness ==
    /\ v.pc = "done"
    /\ v.err = OK
    /\ Len(v.rules) = 2
    /\ Len(Failed(Calls({"Rule.Prepare"}))) = 1
    /\ Len(Failed(Calls({"Rule.Validate"}))) = 1

PhaseOps == {"PrepareConditions", "Evaluate", "Rule.Prepare", "Rule.Validate"} \cup HookNames

\* what a phase-level call is made on: the rule for a rule call, nothing otherwise
Step(x) == <<x.op, x.on>>
StepsFor(op, names) == [i \in 1..Len(names) |-> <<op, names[i]>>]
\* the calls a hook slot contributes: one if it is set, none if it is nil
HookSteps(h) == StepsFor(h, IF h \in input.hooks THEN <<0>> ELSE <<>>)

\* C3: a Validate run that passed condition preparation has made, in this
\* order: PrepareConditions on the root, the AfterPrepareConditions hook,
\* Evaluate on the root, the AfterEvaluateConditions hook, Prepare of every
\* candidate rule in the order Evaluate returned them, the AfterPrepareRules
\* hook, Validate of every rule whose Prepare succeeded in the same order, the
\* AfterValidateRules hook, each hook once if it is set; and at no moment of
\* the run has a Rule.Validate call been made while a candidate rule is still
\* to be prepared.
C3_PhaseOrder ==
    /\ (v.pc = "done" /\ v.err = OK) =>
          MapSeq(Step, Calls(PhaseOps)) =
              <<<<"PrepareConditions", 0>>>>
              \o HookSteps("AfterPrepareConditions")
              \o <<<<"Evaluate", 0>>>>
              \o HookSteps("AfterEvaluateConditions")
              \o StepsFor("Rule.Prepare", MapSeq(NameOf, v.rules))
              \o HookSteps("AfterPrepareRules")
              \o StepsFor("Rule.Validate", MapSeq(OnOf, Succeeded(Calls({"Rule.Prepare"}))))
              \o HookSteps("AfterValidateRules")
    /\ Calls({"Rule.Validate"}) # <<>> =>
          /\ Len(Calls({"Rule.Prepare"})) = Len(v.rules)
          /\ Calls({"Evaluate"}) # <<>>

C3_Witness ==
    /\ v.pc = "done"
    /\ v.err = OK
    /\ input.hooks = HookNames
    /\ Len(v.rules) = 2
    /\ Len(Calls({"Rule.Validate"})) = 2

(***************************************************************************)
(* ValidateMulti                                                           *)
(***************************************************************************)
\* a leaf holding a stateless rule and a rule with a prepare step
BothRules == Rules(<<NewTypedRule(1), NewTypedRuleWithPrepare(2)>>)

\* the trees of a batch: the leaf, bare or guarded by a condition that loads data
MultiTrees == {BothRules, Node(NewTypedConditionWithPrepare(2), <<BothRules>>)}

\* NewTarget(ctx, tree)
NewTarget(ctx, tree) == [tree |-> tree, ctx |-> ctx]

\* the targets at position i of a batch; registry i is bound for target i, as
\* ValidateMultiWithData does
TargetsAt(i) ==
    UNION { { NewTarget(ctx, tree) : ctx \in ContextsFor(tree, i) } : tree \in MultiTrees }

\* the batches of n targets
RECURSIVE BatchesOf(_)
BatchesOf(n) ==
    IF n = 0 THEN {<<>>}
    ELSE { Append(b, t) : b \in BatchesOf(n - 1), t \in TargetsAt(n) }

InitMulti ==
    /\ \E n \in 0..MaxTargets : \E targets \in BatchesOf(n) : \E hooks \in {{}, HookNames} :
          input = [targets |-> targets, ctx |-> Background, hooks |-> hooks, name |-> "tree"]
    /\ heap = FreshHeap
    /\ log = <<>>
    /\ v = IdleV
    /\ m = [IdleM EXCEPT !.pc = "PrepareConditions", !.k = 1]
    /\ e = IdleE
    /\ runs = IdleRuns
    /\ ctxs = <<>>

\* MultiPrepareConditions that gives up the failing target only and goes on
\* with the next one
MultiPrepareConditionsPerTarget ==
    /\ m.pc = "PrepareConditions"
    /\ m.k <= Len(input.targets)
    /\ LET target == input.targets[m.k]
           r == PrepareConditions(target.tree, target.ctx,
                                  Logged(S, Ev("PrepareConditions", m.k, target.ctx))) IN
       /\ heap' = r.s.heap
       /\ log' = r.s.log
       /\ m' = IF r.err # OK
               THEN [m EXCEPT !.err = r.err, !.k = @ + 1]
               ELSE [m EXCEPT !.k = @ + 1]
    /\ UNCHANGED <<ctxs, runs, input, v, e>>

\* one iteration of: for _, target := range targets {
\*     err := target.tree.PrepareConditions(target.ctx);
\*     if err != nil { return errors.Join(err) } }
MultiPrepareConditions ==
    /\ m.pc = "PrepareConditions"
    /\ m.k <= Len(input.targets)
    /\ LET target == input.targets[m.k]
           r == PrepareConditions(target.tree, target.ctx,
                                  Logged(S, Ev("PrepareConditions", m.k, target.ctx))) IN
       /\ heap' = r.s.heap
       /\ log' = r.s.log
       /\ m' = IF r.err # OK
               THEN [m EXCEPT !.pc = "done", !.err = r.err, !.result = Join(<<r.err>>)]
               ELSE [m EXCEPT !.k = @ + 1]
    /\ UNCHANGED <<ctxs, runs, input, v, e>>

\* the loop over targets is over: AfterPrepareConditions hook; preparedRules,
\* errs and rulesCounter are initialised
MultiAfterPrepareConditions ==
    /\ m.pc = "PrepareConditions"
    /\ m.k > Len(input.targets)
    /\ LET s2 == CallHook(input.hooks, "AfterPrepareConditions", input.ctx, S) IN
       /\ heap' = s2.heap
       /\ log' = s2.log
    /\ m' = [m EXCEPT !.pc = "Evaluate", !.preparedRules = [t \in 1..MaxTargets |-> <<>>],
                      !.errs = <<>>, !.owner = <<>>, !.rulesCounter = 0, !.i = 1]
    /\ UNCHANGED <<ctxs, runs, input, v, e>>

\* for i, target := range targets { _, rules := target.tree.Evaluate(target.ctx, name) ...
MultiEvaluate ==
    /\ m.pc = "Evaluate"
    /\ m.i <= Len(input.targets)
    /\ LET target == input.targets[m.i]
           r == Evaluate(target.tree, target.ctx, input.name,
                         Logged(S, Ev("Evaluate", m.i, target.ctx))) IN
       /\ heap' = r.s.heap
       /\ log' = r.s.log
       /\ m' = [m EXCEPT !.pc = "PrepareRules", !.rules = r.rules, !.j = 1,
                         !.cands = Append(@, r.rules)]
    /\ UNCHANGED <<ctxs, runs, input, v, e>>

\* one iteration of: for _, rule := range rules {
\*     preparedRules[i] = make([]Rule, 0, len(rules));
\*     err := rule.Prepare(target.ctx);
\*     if err != nil { errs = append(errs, err); continue }
\*     preparedRules[i] = append(preparedRules[i], rule); rulesCounter++ }
MultiPrepareRule ==
    /\ m.pc = "PrepareRules"
    /\ m.j <= Len(m.rules)
    /\ LET target == input.targets[m.i]
           rule == m.rules[m.j]
           r == RulePrepare(rule, target.ctx, S) IN
       /\ heap' = r.s.heap
       /\ log' = r.s.log
       /\ m' = IF r.err # OK
               THEN [m EXCEPT !.preparedRules[m.i] = <<>>,
                              !.errs = Append(@, r.err), !.owner = Append(@, m.i),
                              !.j = @ + 1]
               ELSE [m EXCEPT !.preparedRules[m.i] = <<rule>>,
                              !.rulesCounter = @ + 1, !.j = @ + 1]
    /\ UNCHANGED <<ctxs, runs, input, v, e>>

\* the rules of target i are done: on to the next target
MultiPrepareRulesDone ==
    /\ m.pc = "PrepareRules"
    /\ m.j > Len(m.rules)
    /\ m' = [m EXCEPT !.pc = "Evaluate", !.i = @ + 1]
    /\ UNCHANGED <<ctxs, runs, input, heap, log, v, e>>

\* the loop over targets is over: AfterEvaluateConditions hook;
\* errs = make([]error, 0, rulesCounter)
MultiAfterEvaluate ==
    /\ m.pc = "Evaluate"
    /\ m.i > Len(input.targets)
    /\ LET s2 == CallHook(input.hooks, "AfterEvaluateConditions", input.ctx, S) IN
       /\ heap' = s2.heap
       /\ log' = s2.log
    /\ m' = [m EXCEPT !.pc = "ValidateRules", !.errs = <<>>, !.owner = <<>>, !.i = 1, !.j = 1]
    /\ UNCHANGED <<ctxs, runs, input, v, e>>

\* one iteration of: for _, rule := range preparedRules[i] { err := rule.Validate(target.ctx) ... }
MultiValidateRule ==
    /\ m.pc = "ValidateRules"
    /\ m.i <= Len(input.targets)
    /\ m.j <= Len(m.preparedRules[m.i])
    /\ LET target == input.targets[m.i]
           r == RuleValidate(m.preparedRules[m.i][m.j], target.ctx, S) IN
       /\ heap' = r.s.heap
       /\ log' = r.s.log
       /\ m' = IF r.err # OK
               THEN [m EXCEPT !.errs = Append(@, r.err), !.owner = Append(@, m.i), !.j = @ + 1]
               ELSE [m EXCEPT !.j = @ + 1]
    /\ UNCHANGED <<ctxs, runs, input, v, e>>

\* the prepared rules of target i are done: on to the next target
MultiValidateRulesDone ==
    /\ m.pc = "ValidateRules"
    /\ m.i <= Len(input.targets)
    /\ m.j > Len(m.preparedRules[m.i])
    /\ m' = [m EXCEPT !.i = @ + 1, !.j = 1]
    /\ UNCHANGED <<ctxs, runs, input, heap, log, v, e>>

\* the loop over targets is over: AfterPrepareRules hook; return errors.Join(errs...)
MultiReturn ==
    /\ m.pc = "ValidateRules"
    /\ m.i > Len(input.targets)
    /\ LET s2 == CallHook(input.hooks, "AfterPrepareRules", input.ctx, S) IN
       /\ heap' = s2.heap
       /\ log' = s2.log
    /\ m' = [m EXCEPT !.pc = "done", !.result = Join(m.errs)]
    /\ UNCHANGED <<ctxs, runs, input, v, e>>

NextMulti ==
    \/ MultiPrepareConditions
    \/ MultiAfterPrepareConditions
    \/ MultiEvaluate
    \/ MultiPrepareRule
    \/ MultiPrepareRulesDone
    \/ MultiAfterEvaluate
    \/ MultiValidateRule
    \/ MultiValidateRulesDone
    \/ MultiReturn

SpecMulti == InitMulti /\ [][NextMulti]_vars

(***************************************************************************)
(* Properties of ValidateMulti                                             *)
(***************************************************************************)
RECURSIVE Flatten(_)
Flatten(qq) == IF qq = <<>> THEN <<>> ELSE Head(qq) \o Flatten(Tail(qq))

\* the registries of the contexts of a batch (0: no registry)
CtxIds == { input.targets[i].ctx.id : i \in 1..Len(input.targets) }
In(q, c) == SelectSeq(q, LAMBDA x : x.ctx = c)
Count(q, x) == Cardinality({ i \in 1..Len(q) : q[i] = x })

\* every error of the calls q is in the result as often as q returned it
AllRecorded(q, result) ==
    \A i \in 1..Len(q) : Count(MapSeq(ErrOf, q), q[i].err) <= Count(result, q[i].err)

\* C4: when ValidateMulti returns after condition preparation succeeded, for
\* every target context the Rule.Validate calls made with it are the rules
\* whose Prepare succeeded with it, once each and in order, and every error
\* those calls returned is in the result.
C4_EveryPreparedRuleValidated ==
    (m.pc = "done" /\ m.err = OK) =>
        /\ \A c \in CtxIds :
              MapSeq(OnOf, In(Calls({"Rule.Validate"}), c))
                  = MapSeq(OnOf, Succeeded(In(Calls({"Rule.Prepare"}), c)))
        /\ AllRecorded(Failed(Calls({"Rule.Validate"})), m.result)

\* C5: when ValidateMulti returns after condition preparation succeeded,
\* every candidate rule of every target had Prepare called, in order, and the
\* error of every failed Prepare is in the result.
C5_PrepareFailuresRecorded ==
    (m.pc = "done" /\ m.err = OK) =>
        /\ MapSeq(OnOf, Calls({"Rule.Prepare"})) = MapSeq(NameOf, Flatten(m.cands))
        /\ AllRecorded(Failed(Calls({"Rule.Prepare"})), m.result)

\* the failures target i contributed to the result of the batch
Contribution(i) ==
    LET idx == { n \in 1..Len(m.result) : m.owner[n] = i }
        F[n \in 0..Len(m.result)] ==
            IF n = 0 THEN <<>>
            ELSE IF n \in idx THEN Append(F[n - 1], m.result[n]) ELSE F[n - 1] IN
    F[Len(m.result)]

\* C6: when ValidateMulti returns after condition preparation succeeded, the
\* failures each target contributed are the failures Validate returns for
\* that target's tree and context on its own.
C6_TargetsIndependent ==
    (m.pc = "done" /\ m.err = OK) =>
        \A i \in 1..Len(input.targets) :
            Contribution(i) =
                ValidateCall(input.targets[i].tree, input.targets[i].ctx, input.hooks,
                             input.name, [heap |-> FreshHeap, log |-> <<>>]).result

Positions(ops) == { n \in 1..Len(log) : log[n].op \in ops }

\* C7: when ValidateMulti returns after condition preparation succeeded, each
\* hook that is set has been invoked exactly once; AfterPrepareConditions
\* after every PrepareConditions call and before every Evaluate call,
\* AfterEvaluateConditions after every Evaluate call, AfterPrepareRules after
\* every Rule.Prepare call and before every Rule.Validate call,
\* AfterValidateRules after every Rule.Validate call.
C7_MultiHooks ==
    (m.pc = "done" /\ m.err = OK) =>
        /\ \A h \in input.hooks : Cardinality(Positions({h})) = 1
        /\ \A h \in HookNames \ input.hooks : Positions({h}) = {}
        /\ \A a \in Positions({"PrepareConditions"}), b \in Positions({"AfterPrepareConditions"}),
              c \in Positions({"Evaluate"}) : a < b /\ b < c
        /\ \A a \in Positions({"Evaluate"}), b \in Positions({"AfterEvaluateConditions"}) : a < b
        /\ \A a \in Positions({"Rule.Prepare"}), b \in Positions({"AfterPrepareRules"}) : a < b
        /\ \A a \in Positions({"AfterPrepareRules"}), b \in Positions({"Rule.Validate"}) : a < b
        /\ \A a \in Positions({"Rule.Validate"}), b \in Positions({"AfterValidateRules"}) : a < b

\* C8: when PrepareConditions fails for target k, ValidateMulti returns that
\* error alone; PrepareConditions has been called for targets 1..k, once each
\* and in order, and for no target after k; no target has been evaluated and
\* no rule prepared or validated.
C8_BatchAbort ==
    m.err # OK =>
        /\ m.pc = "done"
        /\ m.result = <<m.err>>
        /\ log[Len(log)].op = "Condition.Prepare"
        /\ log[Len(log)].err = m.err
        /\ log[Len(log)].ctx = input.targets[m.k].ctx.id
        /\ MapSeq(OnOf, Calls({"PrepareConditions"})) = [i \in 1..m.k |-> i]
        /\ Calls({"Evaluate", "Rule.Prepare", "Rule.Validate", "fn"}) = <<>>

C8_Witness ==
    /\ m.pc = "done"
    /\ m.err # OK
    /\ m.k = 2
    /\ Len(input.targets) = 2
    /\ input.targets[1].ctx.reg
    /\ input.targets[1].tree.kind = "node"
    /\ Calls({"Condition.Prepare"})[1].err = OK

(***************************************************************************)
(* Direct calls of PrepareConditions and Evaluate on a tree                *)
(***************************************************************************)
\* conjunctions, disjunctions and roots over the single-rule subtrees
EvalTrees ==
    UNION { {AllOf(ch), AnyOf(ch), Root(ch)} : ch \in SeqsUpTo(Kids, MaxChildren) }

InitEval ==
    /\ \E tree \in EvalTrees : \E ctx \in ConditionContextsFor(tree, 1) :
          input = [tree |-> tree, ctx |-> ctx, hooks |-> {}, name |-> "tree"]
    /\ heap = FreshHeap
    /\ log = <<>>
    /\ v = IdleV
    /\ m = IdleM
    /\ e = [IdleE EXCEPT !.pc = "start"]
    /\ runs = IdleRuns
    /\ ctxs = <<>>

\* tree.PrepareConditions(ctx)
EvalPrepareConditions ==
    /\ e.pc = "start"
    /\ LET r == PrepareConditions(input.tree, input.ctx,
                                  Logged(S, Ev("PrepareConditions", 0, input.ctx))) IN
       /\ heap' = r.s.heap
       /\ log' = r.s.log
       /\ e' = [e EXCEPT !.pc = IF r.err = Panic THEN "panicked" ELSE "prepared", !.err = r.err]
    /\ UNCHANGED <<ctxs, runs, input, v, m>>

\* ok, rules := tree.Evaluate(ctx, name), with or without a preparation before
EvalEvaluate ==
    /\ e.pc \in {"start", "prepared"}
    /\ LET r == Evaluate(input.tree, input.ctx, input.name,
                         Logged(S, Ev("Evaluate", 0, input.ctx))) IN
       /\ heap' = r.s.heap
       /\ log' = r.s.log
       /\ e' = [e EXCEPT !.pc = "done", !.at = Len(log) + 1, !.ok = r.ok, !.rules = r.rules]
    /\ UNCHANGED <<ctxs, runs, input, v, m>>

NextEval ==
    \/ EvalPrepareConditions
    \/ EvalEvaluate

SpecEval == InitEval /\ [][NextEval]_vars

\* the calls made under the Evaluate call on the root
EvalLog == SubSeq(log, e.at + 1, Len(log))

\* child i of the root evaluated on its own, in the state the call left
Child(i) ==
    Evaluate(input.tree.children[i], input.ctx, "", [heap |-> heap, log |-> <<>>])
Matching == { i \in 1..Len(input.tree.children) : Child(i).ok }
NotMatching == { i \in 1..Len(input.tree.children) : ~Child(i).ok }

\* the rules of the matching children among the first n, in child order
RulesUpTo(n) ==
    LET F[i \in 0..n] ==
            IF i = 0 THEN <<>>
            ELSE IF Child(i).ok THEN F[i - 1] \o Child(i).rules ELSE F[i - 1] IN
    F[n]

\* the condition calls evaluating the first n children makes, in order
CallsUpTo(n) ==
    LET F[i \in 0..n] == IF i = 0 THEN <<>> ELSE F[i - 1] \o Child(i).s.log IN
    F[n]

\* C9: AllOf.Evaluate over children of which child i is the first that does
\* not match returns (false, no rules) and has evaluated children 1..i only:
\* the IsValid calls made are those of children 1..i; when every child matches
\* it returns true and the rules of all children in child order.
C9_AllOfShortCircuit ==
    (e.pc = "done" /\ input.tree.kind = "allOf" /\ input.tree.children # <<>>) =>
        IF NotMatching # {}
        THEN LET i == CHOOSE x \in NotMatching : \A y \in NotMatching : x <= y IN
             /\ ~e.ok
             /\ e.rules = <<>>
             /\ EvalLog = CallsUpTo(i)
        ELSE /\ e.ok
             /\ e.rules = RulesUpTo(Len(input.tree.children))
             /\ EvalLog = CallsUpTo(Len(input.tree.children))

C9_Witness ==
    /\ e.pc = "done"
    /\ input.tree.kind = "allOf"
    /\ Len(input.tree.children) = 2
    /\ Child(1).ok
    /\ Child(1).rules # <<>>
    /\ ~Child(2).ok
    /\ Child(2).s.log # <<>>

C11_EmptyNodes ==
    (e.pc = "done" /\ input.tree.kind \in {"allOf", "anyOf"} /\ input.tree.children = <<>>) =>
        /\ e.ok
        /\ e.rules = <<>>
        /\ EvalLog = <<>>
        /\ \A hooks \in HookSets :
              ValidateCall(input.tree, input.ctx, hooks, input.name,
                           [heap |-> FreshHeap, log |-> <<>>]).result = <<>>

C11_Witness ==
    /\ e.pc = "done"
    /\ input.tree = Root(<<>>)
    /\ input.ctx.reg
    /\ e.ok

\* a -> b, the way execution paths are written
Arrow(a, b) == a \o " -> " \o b

\* the tag of the root: its label for Root, the tag of its kind otherwise
RootTag ==
    IF input.tree.kind = "allOf" THEN "allOfNode"
    ELSE IF input.tree = Root(input.tree.children) THEN "root" ELSE "anyOfNode"

\* the paths of the rules of child i of the root: the label, the tag of the
\* root, the name of the condition if the child is a Conditional, the tag of
\* the leaf, the name of the rule
KidPaths(i) ==
    LET kid == input.tree.children[i]
        top == Arrow(input.name, RootTag)
        leaf == IF kid.kind = "leaf" THEN kid ELSE kid.children[1]
        upTo == IF kid.kind = "leaf" THEN top ELSE Arrow(top, ToString(kid.cond.name)) IN
    [j \in 1..Len(leaf.rules) |-> Arrow(Arrow(upTo, "leafNode"), ToString(leaf.rules[j].name))]

\* the paths of the rules of the matched children, in child order
ExpectedPaths ==
    LET F[i \in 0..Len(input.tree.children)] ==
            IF i = 0 THEN <<>>
            ELSE IF Child(i).ok THEN F[i - 1] \o KidPaths(i) ELSE F[i - 1] IN
    F[Len(input.tree.children)]

\* rule.GetExecutionPath() of each rule of a list, in a given state of the rules
PathsOf(rules, h) == [k \in 1..Len(rules) |-> h.path[rules[k].name]]

\* the rule objects in the leaves of the root, leaf by leaf
LeafRules ==
    LET F[i \in 0..Len(input.tree.children)] ==
            IF i = 0 THEN <<>>
            ELSE LET kid == input.tree.children[i] IN
                 F[i - 1] \o (IF kid.kind = "leaf" THEN kid.rules ELSE kid.children[1].rules) IN
    F[Len(input.tree.children)]
NoSharedRule == \A i, j \in 1..Len(LeafRules) : LeafRules[i] = LeafRules[j] => i = j

\* Evaluate called once more with the same label and context
Again == Evaluate(input.tree, input.ctx, input.name, S)

Evaluated == e.pc = "done" /\ input.tree.kind \in {"allOf", "anyOf"}

NodeConds == CondPool \cup {NilCondition} \cup { Not(c) : c \in CondPool \cup {NilCondition} }

NodeTrees == { Node(c, ch) : c \in NodeConds, ch \in SeqsUpTo(Kids, MaxChildren) }

\* what the branches of an Either hold: a leaf, a leaf guarded by a condition
\* that loads data, and a conjunction of nothing, which matches and has no rule
BranchKids ==
    { Rules(<<NewTypedRule(1)>>),
      Node(NewTypedConditionWithPrepare(2), <<Rules(<<NewTypedRuleWithPrepare(2)>>)>>),
      AllOf(<<>>) }

\* the conditions an Either is built with: nil, a pure one, one that loads data
EitherConds == {NilCondition, NewTypedCondition(1), NewTypedConditionWithPrepare(2)}

EitherTrees ==
    { Either(c, l, r) : c \in EitherConds,
                        l \in SeqsUpTo(BranchKids, MaxBranch), r \in SeqsUpTo(BranchKids, MaxBranch) }

\* the trees called directly: Conditionals, Eithers, and Eithers inside a conjunction
DirectTrees == NodeTrees \cup EitherTrees \cup { AllOf(<<t>>) : t \in EitherTrees }

InitNode ==
    /\ \E tree \in DirectTrees : \E ctx \in ConditionContextsFor(tree, 1) :
          input = [tree |-> tree, ctx |-> ctx, hooks |-> {}, name |-> "tree"]
    /\ heap = FreshHeap
    /\ log = <<>>
    /\ v = IdleV
    /\ m = IdleM
    /\ e = [IdleE EXCEPT !.pc = "start"]
    /\ runs = IdleRuns
    /\ ctxs = <<>>

SpecNode == InitNode /\ [][NextEval]_vars

Fresh == [heap |-> FreshHeap, log |-> <<>>]

\* the calls made under the PrepareConditions call on the root
PrepLog == SubSeq(log, 2, Len(log))

\* PrepareConditions on child i alone
ChildPrep(i) == PrepareConditions(input.tree.children[i], input.ctx, Fresh)

\* the calls preparing the first n children makes, in order
PrepUpTo(n) ==
    LET F[i \in 0..n] == IF i = 0 THEN <<>> ELSE F[i - 1] \o ChildPrep(i).s.log IN
    F[n]

\* the children up to the first whose preparation fails
Reached ==
    LET n == Len(input.tree.children)
        bad == { i \in 1..n : ChildPrep(i).err # OK } IN
    IF bad = {} THEN n ELSE CHOOSE i \in bad : \A j \in bad : i <= j

\* the root is a Conditional whose condition is not nil and not Not(nil), and
\* PrepareConditions has returned
NodePrepared ==
    /\ e.pc = "prepared"
    /\ input.tree.kind = "node"
    /\ input.tree.cond \notin {NilCondition, Not(NilCondition)}

\* the early test of a pure condition and its outcome
PureTest == IF IsPure(input.tree.cond) THEN ConditionIsValid(input.tree.cond, input.ctx, Fresh)
            ELSE [val |-> TRUE, s |-> Fresh]
OwnPrepare == ConditionPrepare(input.tree.cond, input.ctx, Fresh)

\* C12: PrepareConditions on a Conditional tests a pure condition first; when
\* the condition is pure and not valid nothing else is called and nil is
\* returned; when it is impure, or pure and valid, Prepare is called on the
\* condition and, if that succeeds, the children are prepared in order up to
\* the first whose preparation fails; the first failure is what is returned.
C12_NodePrepare ==
    NodePrepared =>
        /\ PrepLog = PureTest.s.log \o
               (IF ~PureTest.val THEN <<>>
                ELSE OwnPrepare.s.log \o (IF OwnPrepare.err # OK THEN <<>> ELSE PrepUpTo(Reached)))
        /\ e.err = IF ~PureTest.val THEN OK
                   ELSE IF OwnPrepare.err # OK THEN OwnPrepare.err
                   ELSE IF Reached = 0 THEN OK ELSE ChildPrep(Reached).err

\* C12 as stated: when the condition is impure, or pure and valid, Prepare is
\* called on the condition and then PrepareConditions on every child.
C12_NodePrepareEveryChild ==
    NodePrepared =>
        PrepLog = PureTest.s.log \o
            (IF ~PureTest.val THEN <<>>
             ELSE OwnPrepare.s.log \o PrepUpTo(Len(input.tree.children)))

\* a pure condition that is not valid over a child whose preparation, had it
\* run, would have called a condition
C12_Witness ==
    /\ NodePrepared
    /\ IsPure(input.tree.cond)
    /\ ~PureTest.val
    /\ Len(input.tree.children) = 2
    /\ ChildPrep(2).s.log # <<>>
    /\ Len(PrepLog) = 1

\* the IsValid call Evaluate makes on the condition of the root, in the
\* state the call left; none on a nil condition
OwnIsValid ==
    IF input.tree.cond = NilCondition THEN [val |-> FALSE, s |-> [heap |-> heap, log |-> <<>>]]
    ELSE ConditionIsValid(input.tree.cond, input.ctx, [heap |-> heap, log |-> <<>>])

\* C14: Evaluate on a Conditional whose condition is nil or not valid returns
\* (false, no rules) and evaluates no child; otherwise it evaluates every
\* child in order and returns true with the rules of the children that
\* matched, in child order, also when that list is empty.
C14_NodeEvaluate ==
    (e.pc = "done" /\ input.tree.kind = "node") =>
        IF ~OwnIsValid.val
        THEN /\ ~e.ok
             /\ e.rules = <<>>
             /\ EvalLog = OwnIsValid.s.log
        ELSE /\ e.ok
             /\ e.rules = RulesUpTo(Len(input.tree.children))
             /\ EvalLog = OwnIsValid.s.log \o CallsUpTo(Len(input.tree.children))

\* a valid condition over two guarded children of which none matched
C14_Witness ==
    /\ e.pc = "done"
    /\ input.tree.kind = "node"
    /\ OwnIsValid.val
    /\ Len(input.tree.children) = 2
    /\ Matching = {}
    /\ e.ok
    /\ e.rules = <<>>

\* the root is guarded by nil: a Conditional around nil or Not(nil), or an
\* Either around nil
NilGuarded ==
    \/ input.tree.kind = "node" /\ input.tree.cond \in {NilCondition, Not(NilCondition)}
    \/ input.tree.kind = "either" /\ input.tree.cond = NilCondition

\* the rules of the matched children of the right list of the root
RightRules ==
    CollectMatched(input.tree.right, input.ctx, "", <<>>, [heap |-> heap, log |-> <<>>]).rules

\* C15: on a root guarded by nil, PrepareConditions and Evaluate return
\* without a panic, PrepareConditions returns nil, and the guarded branch
\* gives no rule: a Conditional returns (false, no rules), an Either returns
\* the rules of its right list.
C15_NilNeverRaises ==
    NilGuarded =>
        /\ e.pc # "panicked"
        /\ e.err = OK
        /\ e.pc = "done" =>
              IF input.tree.kind = "node" THEN ~e.ok /\ e.rules = <<>>
              ELSE e.rules = RightRules

\* the Either under test: the root, or the only child of a root conjunction
TheEither ==
    IF input.tree.kind = "allOf" /\ input.tree.children # <<>> THEN input.tree.children[1]
    ELSE input.tree
EitherRun == e.pc = "done" /\ TheEither.kind = "either"

\* the IsValid call Evaluate makes on the condition of the Either
EitherIsValid ==
    IF TheEither.cond = NilCondition THEN [val |-> FALSE, s |-> [heap |-> heap, log |-> <<>>]]
    ELSE ConditionIsValid(TheEither.cond, input.ctx, [heap |-> heap, log |-> <<>>])

\* the list the condition selects, and each of its members evaluated alone
Selected == IF EitherIsValid.val THEN TheEither.left ELSE TheEither.right
Member(i) == Evaluate(Selected[i], input.ctx, "", [heap |-> heap, log |-> <<>>])

\* the rules of the members that matched, and the calls evaluating the members makes
SelectedRules ==
    LET F[i \in 0..Len(Selected)] ==
            IF i = 0 THEN <<>>
            ELSE IF Member(i).ok THEN F[i - 1] \o Member(i).rules ELSE F[i - 1] IN
    F[Len(Selected)]
SelectedCalls ==
    LET F[i \in 0..Len(Selected)] == IF i = 0 THEN <<>> ELSE F[i - 1] \o Member(i).s.log IN
    F[Len(Selected)]

\* C16: Evaluate on an Either calls IsValid on a non-nil condition, evaluates
\* the members of the left list when it is valid and of the right list
\* otherwise, and no member of the other list; it returns the rules of the
\* members that matched, in order, and matched exactly when that list of
\* rules is not empty; a conjunction around the Either returns (false, no
\* rules) when the Either collected no rule.
C16_EitherEvaluate ==
    EitherRun =>
        /\ EvalLog = EitherIsValid.s.log \o SelectedCalls
        /\ e.ok <=> SelectedRules # <<>>
        /\ e.rules = SelectedRules

\* a conjunction around an Either whose valid condition selected a left list
\* of two members that both matched and hold no rule
C16_Witness ==
    /\ EitherRun
    /\ input.tree.kind = "allOf"
    /\ EitherIsValid.val
    /\ Len(Selected) = 2
    /\ TheEither.right # <<>>
    /\ \A i \in 1..Len(Selected) : Member(i).ok
    /\ SelectedRules = <<>>
    /\ ~e.ok

(***************************************************************************)
(* Validate over a root holding an Either                                  *)
(***************************************************************************)
InitValidateEither ==
    /\ \E t \in EitherTrees : \E ctx \in ConditionContextsFor(t, 1) :
          input = [tree |-> Root(<<t>>), ctx |-> ctx, hooks |-> {}, name |-> "tree"]
    /\ heap = FreshHeap
    /\ log = <<>>
    /\ v = [IdleV EXCEPT !.pc = "PrepareConditions"]
    /\ m = IdleM
    /\ e = IdleE
    /\ runs = IdleRuns
    /\ ctxs = <<>>

SpecValidateEither == InitValidateEither /\ [][NextValidate]_vars

\* C13: at every moment of a Validate run, each IsValid call made on a
\* condition that is not pure comes after a Prepare call on that condition.
C13_PrepareBeforeIsValid ==
    \A n \in 1..Len(log) :
        (log[n].op = "IsValid" /\ log[n].on \in ImpureCondNames) =>
            \E k \in 1..(n - 1) : log[k].op = "Condition.Prepare" /\ log[k].on = log[n].on

(***************************************************************************)
(* Two ValidateWithData calls that share one tree instance                 *)
(***************************************************************************)
\* the trees the two calls share: a root over one leaf, bare or guarded
RunTrees == { Root(<<k>>) : k \in Kids }

\* every condition of the tree is a pure ConditionFunc and every rule keeps
\* nothing between its Prepare and its Validate
RECURSIVE PureTree(_)
PureTree(t) ==
    CASE t.kind = "leaf" -> \A i \in 1..Len(t.rules) : t.rules[i].kind = "data"
      [] t.kind = "node" ->
            /\ t.cond.kind = "func"
            /\ \A i \in 1..Len(t.children) : PureTree(t.children[i])
      [] t.kind = "either" ->
            /\ t.cond.kind = "func"
            /\ \A i \in 1..Len(t.left) : PureTree(t.left[i])
            /\ \A i \in 1..Len(t.right) : PureTree(t.right[i])
      [] OTHER -> \A i \in 1..Len(t.children) : PureTree(t.children[i])

\* two goroutines are about to call ValidateWithData(ctx, tree, hooks, name, d)
\* on the same tree, each with its own data and with no hook set
InitRuns ==
    /\ \E tree \in RunTrees :
          /\ input = [tree |-> tree, ctx |-> Background, hooks |-> {}, name |-> "tree"]
          /\ \E d \in [Procs -> DataFor(tree)] :
                runs = [p \in Procs |-> [IdleRun EXCEPT !.pc = "PrepareConditions",
                                                        !.data = d[p]]]
    /\ heap = FreshHeap
    /\ log = <<>>
    /\ v = IdleV
    /\ m = IdleM
    /\ e = IdleE
    /\ ctxs = <<>>

\* the other call
Peer(p) == CHOOSE q \in Procs : q # p

\* the loops of Validate that have nothing left to iterate over are left, and
\* Validate returns errors.Join(errs...) after the second one; no hook is set
LoopsLeft(run) ==
    LET a == IF run.pc = "PrepareRules" /\ run.i > Len(run.rules)
             THEN [run EXCEPT !.pc = "ValidateRules", !.i = 1] ELSE run IN
    IF a.pc = "ValidateRules" /\ a.i > Len(a.prepared)
    THEN [a EXCEPT !.pc = "done", !.result = Join(a.errs)] ELSE a

\* reg := NewDataRegistry(data); ctx = WithRegistry(ctx, reg); then Validate's
\* err := tree.PrepareConditions(ctx); if err != nil { return errors.Join(err) }
RunPrepareConditions(p) ==
    /\ runs[p].pc = "PrepareConditions"
    /\ LET ctx == WithRegistry(input.ctx, p, runs[p].data)
           r == PrepareConditions(input.tree, ctx, Logged(S, Ev("PrepareConditions", 0, ctx)))
           run == [runs[p] EXCEPT !.ctx = ctx, !.after = (runs[Peer(p)].pc = "done")] IN
       /\ heap' = r.s.heap
       /\ log' = r.s.log
       /\ runs' = [runs EXCEPT ![p] =
                     IF r.err # OK
                     THEN [run EXCEPT !.pc = "done", !.err = r.err, !.result = Join(<<r.err>>)]
                     ELSE [run EXCEPT !.pc = "Evaluate"]]
    /\ UNCHANGED <<ctxs, input, v, m, e>>

\* _, rules := tree.Evaluate(ctx, name); errs and preparedRules are made empty
RunEvaluate(p) ==
    /\ runs[p].pc = "Evaluate"
    /\ LET r == Evaluate(input.tree, runs[p].ctx, input.name,
                         Logged(S, Ev("Evaluate", 0, runs[p].ctx))) IN
       /\ heap' = r.s.heap
       /\ log' = r.s.log
       /\ runs' = [runs EXCEPT ![p] =
                     LoopsLeft([@ EXCEPT !.pc = "PrepareRules", !.rules = r.rules,
                                         !.errs = <<>>, !.prepared = <<>>, !.i = 1])]
    /\ UNCHANGED <<ctxs, input, v, m, e>>

\* one iteration of: for _, rule := range rules { err := rule.Prepare(ctx) ... }
RunPrepareRule(p) ==
    /\ runs[p].pc = "PrepareRules"
    /\ LET rule == runs[p].rules[runs[p].i]
           r == RulePrepare(rule, runs[p].ctx, S) IN
       /\ heap' = r.s.heap
       /\ log' = r.s.log
       /\ runs' = [runs EXCEPT ![p] =
                     LoopsLeft(IF r.err # OK
                               THEN [@ EXCEPT !.errs = Append(@, r.err), !.i = @ + 1]
                               ELSE [@ EXCEPT !.prepared = Append(@, rule), !.i = @ + 1])]
    /\ UNCHANGED <<ctxs, input, v, m, e>>

\* one iteration of: for _, rule := range preparedRules { err := rule.Validate(ctx) ... }
RunValidateRule(p) ==
    /\ runs[p].pc = "ValidateRules"
    /\ LET r == RuleValidate(runs[p].prepared[runs[p].i], runs[p].ctx, S) IN
       /\ heap' = r.s.heap
       /\ log' = r.s.log
       /\ runs' = [runs EXCEPT ![p] =
                     LoopsLeft(IF r.err # OK
                               THEN [@ EXCEPT !.errs = Append(@, r.err), !.i = @ + 1]
                               ELSE [@ EXCEPT !.i = @ + 1])]
    /\ UNCHANGED <<ctxs, input, v, m, e>>

NextRuns ==
    \E p \in Procs :
        \/ RunPrepareConditions(p)
        \/ RunEvaluate(p)
        \/ RunPrepareRule(p)
        \/ RunValidateRule(p)

SpecRuns == InitRuns /\ [][NextRuns]_vars

\* what the call of p returns when it is the only call on a fresh tree
Alone(p) ==
    ValidateCall(input.tree, WithRegistry(input.ctx, p, runs[p].data), input.hooks,
                 input.name, Fresh).result

C19_ConcurrentRunsAsAlone ==
    \A p \in Procs :
        (/\ PureTree(input.tree)
         /\ runs[1].data # runs[2].data
         /\ runs[p].pc = "done")
            => runs[p].result = Alone(p)

\* both calls have returned, each began before the other had returned, and
\* they return different lists
C19_Witness ==
    /\ PureTree(input.tree)
    /\ input.tree.children[1].kind = "node"
    /\ runs[1].data # runs[2].data
    /\ \A p \in Procs : runs[p].pc = "done" /\ ~runs[p].after /\ runs[p].result = Alone(p)
    /\ runs[1].result # runs[2].result
    /\ \E k \in 2..(Len(log) - 1) : log[k - 1].ctx # log[k].ctx /\ log[k].ctx # log[k + 1].ctx

\* the calls of a closure that is given loaded data: the check of a rule built
\* by NewTypedRuleWithPrepare, the predicate of a condition built by
\* NewTypedConditionWithPrepare
Invocations ==
    { n \in 1..Len(log) :
        \/ log[n].op = "fn" /\ log[n].on \in PrepRuleNames
        \/ log[n].op = "IsValid" /\ log[n].on \in ImpureCondNames /\ log[n].with # <<>> }

\* the Prepare calls before position n that stored data in the instance the
\* call at n is made on
LoadsBefore(n) ==
    { k \in 1..(n - 1) :
        /\ log[k].op = (IF log[n].op = "fn" THEN "Rule.Prepare" ELSE "Condition.Prepare")
        /\ log[k].on = log[n].on
        /\ log[k].err = OK }

\* the call at n is given what the Prepare of the other call has loaded, which
\* is not what its own call loads
Foreign(n) ==
    /\ n \in Invocations
    /\ LoadsBefore(n) # {}
    /\ LET k == CHOOSE j \in LoadsBefore(n) : \A i \in LoadsBefore(n) : i <= j IN
       /\ log[k].ctx # log[n].ctx
       /\ log[n].with = <<runs[log[k].ctx].data>>
       /\ log[n].with # <<runs[log[n].ctx].data>>

\* C20: a rule built by NewTypedRuleWithPrepare and a condition built by
\* NewTypedConditionWithPrepare are not reentrant. Whenever the check or the
\* predicate is invoked, it is given the data of the latest Prepare that
\* succeeded on the instance, whichever of the two calls made that Prepare; and
\* there is an interleaving where that is the Prepare of the other call.
C20_InvokedWithLatestLoad ==
    \A n \in Invocations :
        /\ LoadsBefore(n) # {}
        /\ LET k == CHOOSE j \in LoadsBefore(n) : \A i \in LoadsBefore(n) : i <= j IN
           log[n].with = <<runs[log[k].ctx].data>>

\* in one interleaving, a check and a predicate are each invoked with the data
\* the other call has loaded
C20_Witness ==
    /\ \E n \in 1..Len(log) : log[n].op = "fn" /\ Foreign(n)
    /\ \E n \in 1..Len(log) : log[n].op = "IsValid" /\ Foreign(n)

(***************************************************************************)
(* Properties of the rules                                                 *)
(***************************************************************************)
\* the Validate calls made on rules built by NewTypedRule
TypedRuleValidates ==
    { n \in 1..Len(log) : log[n].op = "Rule.Validate" /\ log[n].on \notin PrepRuleNames }

\* the Validate call at n has invoked the check of its rule
CheckInvoked(n) ==
    /\ n < Len(log)
    /\ log[n + 1].op = "fn"
    /\ log[n + 1].on = log[n].on

\* C21: a rule built by NewTypedRule invokes its check exactly when a registry
\* is bound and the bound value is of the asserted type; on a value of another
\* type it returns TYPE_MISMATCH and does not invoke the check; with no
\* registry it returns DATA_NOT_FOUND and does not invoke the check.
C21_TypedRule ==
    \A n \in TypedRuleValidates :
        /\ CheckInvoked(n) <=> (input.ctx.reg /\ input.ctx.data.type = "In")
        /\ CheckInvoked(n) =>
              /\ log[n + 1].with = <<input.ctx.data>>
              /\ log[n].err = UserCheck(log[n].on, input.ctx.data)
        /\ (input.ctx.reg /\ input.ctx.data.type # "In") =>
              log[n].err = Error(log[n].on, "TYPE_MISMATCH")
        /\ ~input.ctx.reg => log[n].err = Error(log[n].on, "DATA_NOT_FOUND")

\* a run on a value of another type has validated a rule built by NewTypedRule
C21_Witness ==
    /\ input.ctx.reg /\ input.ctx.data.type = "Other"
    /\ \E n \in TypedRuleValidates :
          ~CheckInvoked(n) /\ log[n].err = Error(log[n].on, "TYPE_MISMATCH")
    /\ v.pc = "done"

(***************************************************************************)
(* Direct calls of Prepare and Validate on one rule                        *)
(***************************************************************************)
RECURSIVE SetToSeq(_)
SetToSeq(set) ==
    IF set = {} THEN <<>>
    ELSE LET x == CHOOSE y \in set : TRUE IN <<x>> \o SetToSeq(set \ {x})

\* the contexts a caller may pass: no registry, or a registry holding one of
\* the values; the identity of a context is its place in the sequence
ContextSeq(values) ==
    LET ds == SetToSeq(values) IN
    [i \in 1..(Len(ds) + 1) |->
        IF i > Len(ds) THEN [Background EXCEPT !.id = i] ELSE WithRegistry(Background, i, ds[i])]

\* the rules built by NewTypedRuleWithPrepare, with a loader and without one
PrepareRules == {NewTypedRuleWithPrepare(2), NewTypedRuleWithNilPrepare(2)}

\* a caller holds one rule and any of the contexts
InitRule ==
    /\ \E rule \in PrepareRules :
          input = [tree |-> Rules(<<rule>>), rule |-> rule,
                   ctxs |-> ContextSeq(DataOver({rule.name}, {})),
                   ctx |-> Background, hooks |-> {}, name |-> "tree"]
    /\ heap = FreshHeap
    /\ log = <<>>
    /\ v = IdleV
    /\ m = IdleM
    /\ e = [IdleE EXCEPT !.pc = "calls"]
    /\ runs = IdleRuns
    /\ ctxs = <<>>

\* rule.Prepare(ctx)
CallPrepare ==
    /\ e.pc = "calls"
    /\ e.at < MaxCalls
    /\ \E i \in 1..Len(input.ctxs) :
          LET r == RulePrepare(input.rule, input.ctxs[i], S) IN
          /\ heap' = r.s.heap
          /\ log' = r.s.log
          /\ e' = [e EXCEPT !.at = @ + 1, !.err = r.err]
    /\ UNCHANGED <<ctxs, runs, input, v, m>>

\* rule.Validate(ctx)
CallValidate ==
    /\ e.pc = "calls"
    /\ e.at < MaxCalls
    /\ \E i \in 1..Len(input.ctxs) :
          LET r == RuleValidate(input.rule, input.ctxs[i], S) IN
          /\ heap' = r.s.heap
          /\ log' = r.s.log
          /\ e' = [e EXCEPT !.at = @ + 1, !.err = r.err]
    /\ UNCHANGED <<ctxs, runs, input, v, m>>

NextRule ==
    \/ CallPrepare
    \/ CallValidate

SpecRule == InitRule /\ [][NextRule]_vars

\* the context passed to the call at n
CtxAt(n) == input.ctxs[log[n].ctx]

\* the Validate calls on the rule made with an input of the expected type
TypedValidates ==
    { n \in 1..Len(log) :
        /\ log[n].op = "Rule.Validate" /\ log[n].on = input.rule.name
        /\ GetAs(CtxAt(n)).ok }

\* the Prepare calls on the rule before position n
PreparesBefore(n) ==
    { k \in 1..(n - 1) : log[k].op = "Rule.Prepare" /\ log[k].on = input.rule.name }

\* the most recent Prepare before n succeeded and stored loaded data
LastPrepareStored(n) ==
    /\ PreparesBefore(n) # {}
    /\ LET k == CHOOSE j \in PreparesBefore(n) : \A i \in PreparesBefore(n) : i <= j IN
       /\ log[k].err = OK
       /\ input.rule.kind = "prep"

\* C22: in any sequence of Prepare and Validate calls on one rule built by
\* NewTypedRuleWithPrepare, a Validate call with an input of the expected type
\* invokes the check only when the most recent Prepare succeeded and stored
\* data, and returns DATA_NOT_PREPARED in every other case.
C22_ValidateNeedsLastPrepare ==
    \A n \in TypedValidates :
        IF LastPrepareStored(n)
        THEN CheckInvoked(n)
        ELSE ~CheckInvoked(n) /\ log[n].err = Error(input.rule.name, "DATA_NOT_PREPARED")

(***************************************************************************)
(* Direct calls of Prepare and Validate on a group built by Or             *)
(***************************************************************************)
\* Or(rule, rules...): at least one member
OrGroups == { Or(ms) : ms \in SeqsUpTo(RulePool, MaxMembers) \ {<<>>} }

\* the names of the members of a group
MemberNames(o) == { o.rules[i].name : i \in 1..Len(o.rules) }

\* a caller holds one group and one context
InitOr ==
    /\ \E o \in OrGroups :
       \E ctx \in {Background} \cup
                  { WithRegistry(Background, 1, d) : d \in DataOver(MemberNames(o), {}) } :
          input = [tree |-> Rules(<<o>>), rule |-> o, ctxs |-> <<[ctx EXCEPT !.id = 1]>>,
                   ctx |-> ctx, hooks |-> {}, name |-> "tree"]
    /\ heap = FreshHeap
    /\ log = <<>>
    /\ v = IdleV
    /\ m = IdleM
    /\ e = [IdleE EXCEPT !.pc = "calls"]
    /\ runs = IdleRuns
    /\ ctxs = <<>>

SpecOr == InitOr /\ [][NextRule]_vars

\* the calls of op on the group
GroupCalls(op) == { n \in 1..Len(log) : log[n].op = op /\ log[n].on = 0 }

\* the calls of op the group call at n has made on its members, in order
MemberCalls(n) ==
    LET stop == { k \in (n + 1)..Len(log) : log[k].on = 0 }
        last == IF stop = {} THEN Len(log) ELSE (CHOOSE k \in stop : \A j \in stop : k <= j) - 1 IN
    SelectSeq(SubSeq(log, n + 1, last), LAMBDA ev : ev.op = log[n].op)

\* the members are called in the order of the group, each after the ones
\* before it have returned as the predicate says
InOrderWhile(n, goesOn(_)) ==
    LET calls == MemberCalls(n) IN
    /\ Len(calls) \in 1..Len(input.rule.rules)
    /\ \A i \in 1..Len(calls) : calls[i].on = input.rule.rules[i].name
    /\ \A i \in 1..(Len(calls) - 1) : goesOn(calls[i].err)

InitValidateOr ==
    /\ \E o \in OrGroups :
       \E ctx \in {Background} \cup
                  { WithRegistry(Background, 1, d) : d \in DataOver(MemberNames(o), {}) } :
          input = [tree |-> Root(<<Rules(<<o>>)>>), ctx |-> ctx, hooks |-> {}, name |-> "tree"]
    /\ heap = FreshHeap
    /\ log = <<>>
    /\ v = [IdleV EXCEPT !.pc = "PrepareConditions"]
    /\ m = IdleM
    /\ e = IdleE
    /\ runs = IdleRuns
    /\ ctxs = <<>>

SpecValidateOr == InitValidateOr /\ [][NextValidate]_vars

\* the group in the leaf
TheOr == input.tree.children[1].rules[1]

\* the rule passes for the bound data: its Prepare and then its Validate
\* return nil
Passes(rule) ==
    LET p == RulePrepare(rule, input.ctx, Fresh) IN
    p.err = OK /\ RuleValidate(rule, input.ctx, p.s).err = OK

\* C24: a group built by Or and placed in a leaf adds no failure to the result
\* of Validate whenever at least one member passes, whatever the other members
\* return.
C24_OrPassesIfOneMemberPasses ==
    (/\ v.pc = "done"
     /\ \E i \in 1..Len(TheOr.rules) : Passes(TheOr.rules[i]))
        => v.result = <<>>

(***************************************************************************)
(* Properties of Not                                                       *)
(***************************************************************************)
\* the root is a Conditional guarded by Not(c), c not nil
NotGuarded ==
    /\ input.tree.kind = "node"
    /\ input.tree.cond.kind = "not"
    /\ input.tree.cond.inner # NilCondition

\* C25: for a condition c that is not nil, in every state and context,
\* Not(c).IsValid is the negation of c.IsValid, Not(c).IsPure is c.IsPure and
\* Not(c).Prepare makes the call c.Prepare and returns what it returns; so
\* Not(Not(c)).IsValid is c.IsValid, and PrepareConditions on a Conditional
\* guarded by Not(c), c pure and valid, calls nothing below the test of the
\* condition and returns nil.
C25_Not ==
    NotGuarded =>
        LET n == input.tree.cond
            c == n.inner IN
        /\ ConditionIsValid(n, input.ctx, S).val = ~ConditionIsValid(c, input.ctx, S).val
        /\ ConditionIsValid(n, input.ctx, S).s = ConditionIsValid(c, input.ctx, S).s
        /\ IsPure(n) = IsPure(c)
        /\ ConditionPrepare(n, input.ctx, S) = ConditionPrepare(c, input.ctx, S)
        /\ ConditionIsValid(Not(n), input.ctx, S).val = ConditionIsValid(c, input.ctx, S).val
        /\ (e.pc = "prepared" /\ IsPure(c) /\ ConditionIsValid(c, input.ctx, Fresh).val) =>
              /\ PrepLog = ConditionIsValid(c, input.ctx, Fresh).s.log
              /\ e.err = OK

\* PrepareConditions has returned on a Conditional guarded by Not(c), c pure
\* and valid, over a child that has a condition to prepare
C25_Witness ==
    /\ NotGuarded
    /\ e.pc = "prepared"
    /\ IsPure(input.tree.cond.inner)
    /\ ConditionIsValid(input.tree.cond.inner, input.ctx, Fresh).val
    /\ input.tree.children # <<>>
    /\ ChildPrep(1).s.log # <<>>
    /\ Len(PrepLog) = 1

(***************************************************************************)
(* Contexts derived from one another                                       *)
(***************************************************************************)
\* context.Background() and the contexts derived from it by context.WithValue:
\* each holds its parent, a key and, under registryKey, a registry
BackgroundNode == [parent |-> 0, key |-> "none", data |-> NoData]

\* the values callers bind: of the type rules assert, and of another type
BoundValues == DataOver({1}, {1})

InitContexts ==
    /\ ctxs = <<BackgroundNode>>
    /\ input = [tree |-> Root(<<>>), ctx |-> Background, hooks |-> {}, name |-> "tree"]
    /\ heap = FreshHeap
    /\ log = <<>>
    /\ v = IdleV
    /\ m = IdleM
    /\ e = IdleE
    /\ runs = IdleRuns

\* WithRegistry(parent, NewDataRegistry(data)) on a context made before
ContextWithRegistry ==
    /\ Len(ctxs) < MaxContexts
    /\ \E p \in 1..Len(ctxs) : \E d \in BoundValues :
          ctxs' = Append(ctxs, [parent |-> p, key |-> "registryKey", data |-> d])
    /\ UNCHANGED <<input, heap, log, v, m, e, runs>>

\* context.WithValue(parent, key, val) under a key of another package
ContextWithOtherKey ==
    /\ Len(ctxs) < MaxContexts
    /\ \E p \in 1..Len(ctxs) :
          ctxs' = Append(ctxs, [parent |-> p, key |-> "otherKey", data |-> NoData])
    /\ UNCHANGED <<input, heap, log, v, m, e, runs>>

NextContexts ==
    \/ ContextWithRegistry
    \/ ContextWithOtherKey

SpecContexts == InitContexts /\ [][NextContexts]_vars

RECURSIVE ContextValueOutermost(_, _)
RECURSIVE ContextValue(_, _)
RECURSIVE Collapsed(_, _)
RECURSIVE PathTo(_, _)

\* ContextValue that goes on to the root and keeps the binding nearest to it
ContextValueOutermost(cs, i) ==
    IF i = 0 THEN [data |-> NoData, ok |-> FALSE]
    ELSE LET up == ContextValueOutermost(cs, cs[i].parent) IN
         IF up.ok THEN up
         ELSE IF cs[i].key = "registryKey" THEN [data |-> cs[i].data, ok |-> TRUE]
         ELSE up

\* ctx.Value(registryKey{}).(*DataRegistry) and Get's reg.data: the lookup
\* goes from the context towards the root and stops at the first binding
ContextValue(cs, i) ==
    IF i = 0 THEN [data |-> NoData, ok |-> FALSE]
    ELSE IF cs[i].key = "registryKey" THEN [data |-> cs[i].data, ok |-> TRUE]
    ELSE ContextValue(cs, cs[i].parent)

\* the context as the rest of the model holds it: built from the root down by
\* WithRegistry, a value under another key leaving the registry as it is
Collapsed(cs, i) ==
    IF i = 0 THEN Background
    ELSE IF cs[i].key = "registryKey" THEN WithRegistry(Collapsed(cs, cs[i].parent), i, cs[i].data)
    ELSE Collapsed(cs, cs[i].parent)

\* the contexts from the root to context i
PathTo(cs, i) == IF i = 0 THEN <<>> ELSE Append(PathTo(cs, cs[i].parent), i)

\* the bindings of a registry on the chain of context i, outermost first
Bindings(cs, i) == SelectSeq(PathTo(cs, i), LAMBDA j : cs[j].key = "registryKey")

\* C26: for any sequence of WithRegistry bindings on a chain of contexts, Get
\* returns the value of the innermost binding on the chain with true, and
\* nothing with false when the chain has no binding; GetAs returns false when
\* there is no binding or the value is not of the asserted type; and deriving
\* a context with a binding leaves what Get returns on every context made
\* before as it was.
C26_Registry ==
    [][\A i \in 1..Len(ctxs) :
          LET b == Bindings(ctxs', i)
              g == ContextValue(ctxs', i) IN
          /\ g.ok <=> b # <<>>
          /\ g.ok => g.data = ctxs'[b[Len(b)]].data
          /\ ~g.ok => g.data = NoData
          /\ Get(Collapsed(ctxs', i)) = g
          /\ GetAs(Collapsed(ctxs', i)).ok <=> (g.ok /\ g.data.type = "In")
          /\ GetAs(Collapsed(ctxs', i)).ok => GetAs(Collapsed(ctxs', i)).data = g.data
          /\ ContextValue(ctxs', i) = ContextValue(ctxs, i)]_vars

\* a chain with two bindings of different values, the inner one of another
\* type, and a context under another key below them
C26_Witness ==
    \E i \in 1..Len(ctxs) :
        /\ Len(Bindings(ctxs, i)) = 2
        /\ ctxs[i].key = "otherKey"
        /\ ctxs[Bindings(ctxs, i)[1]].data.type = "In"
        /\ ContextValue(ctxs, i).data.type = "Other"
        /\ ~GetAs(Collapsed(ctxs, i)).ok
        /\ Get(Collapsed(ctxs, ctxs[Bindings(ctxs, i)[2]].parent)).data.type = "In"

(***************************************************************************)
(* ValidateWithData calls made one after the other on one tree             *)
(***************************************************************************)
\* the second call is made when the first has returned
NextSequential ==
    \E p \in Procs :
        /\ \A q \in Procs : q < p => runs[q].pc = "done"
        /\ \/ RunPrepareConditions(p)
           \/ RunEvaluate(p)
           \/ RunPrepareRule(p)
           \/ RunValidateRule(p)

\* the rules two producers write for their own type: for A, named "In" in the
\* model, under odd names, and for B, named "Other", under even names
RulesOfA == { NewTypedRuleOf("In", n) : n \in { k \in RuleNames : k % 2 = 1 } }
RulesOfB == { NewTypedRuleOf("Other", n) : n \in { k \in RuleNames : k % 2 = 0 } }

\* Root(Node(IsA[A], leafA), Node(IsA[B], leafB))
MergedTrees ==
    { Root(<<Node(IsA("In", 1), <<Rules(a)>>), Node(IsA("Other", 2), <<Rules(b)>>)>>) :
        a \in SeqsUpTo(RulesOfA, MaxChildren) \ {<<>>},
        b \in SeqsUpTo(RulesOfB, MaxChildren) \ {<<>>} }

\* values of type A, of type B and of a third type
MergedData ==
    [type : {"In"}, vf : SUBSET { k \in RuleNames : k % 2 = 1 }, pf : {{}}, cv : {{}}, lf : {{}}]
    \cup [type : {"Other"}, vf : SUBSET { k \in RuleNames : k % 2 = 0 }, pf : {{}}, cv : {{}}, lf : {{}}]
    \cup {[type |-> "Third", vf |-> {}, pf |-> {}, cv |-> {}, lf |-> {}]}

InitMerged ==
    /\ \E tree \in MergedTrees :
          /\ input = [tree |-> tree, ctx |-> Background, hooks |-> {}, name |-> "tree"]
          /\ \E d \in [Procs -> MergedData] :
                runs = [p \in Procs |-> [IdleRun EXCEPT !.pc = "PrepareConditions",
                                                        !.data = d[p]]]
    /\ heap = FreshHeap
    /\ log = <<>>
    /\ v = IdleV
    /\ m = IdleM
    /\ e = IdleE
    /\ ctxs = <<>>

SpecMerged == InitMerged /\ [][NextSequential]_vars

\* the rules call p has made op on, in the order of the calls
CalledBy(p, op) ==
    LET evs == SelectSeq(log, LAMBDA ev : ev.op = op /\ ev.ctx = p) IN
    [i \in 1..Len(evs) |-> evs[i].on]

\* the names of the rules of the leaf under child i of the root
LeafNames(i) ==
    LET rs == input.tree.children[i].children[1].rules IN [k \in 1..Len(rs) |-> rs[k].name]

\* the rules the data of call p is routed to
RoutedTo(p) ==
    CASE runs[p].data.type = "In" -> LeafNames(1)
      [] runs[p].data.type = "Other" -> LeafNames(2)
      [] OTHER -> <<>>

\* C27: on a merged tree Root(Node(IsA[A], leafA), Node(IsA[B], leafB)) used
\* by one call after another, a call with data of type A prepares and
\* validates exactly the rules of leafA, one with data of type B exactly those
\* of leafB, and one with data of neither type calls no rule and returns no
\* failure.
C27_MergedTree ==
    \A p \in Procs :
        runs[p].pc = "done" =>
            /\ CalledBy(p, "Rule.Prepare") = RoutedTo(p)
            /\ CalledBy(p, "Rule.Validate") = RoutedTo(p)
            /\ CalledBy(p, "fn") = RoutedTo(p)
            /\ runs[p].result = Join([i \in 1..Len(RoutedTo(p)) |->
                                         UserCheck(RoutedTo(p)[i], runs[p].data)])
            /\ runs[p].data.type = "Third" => runs[p].result = <<>>

\* a call with a value of type A that fails a rule of leafA, then a call with
\* a value of a third type on the same tree
C27_Witness ==
    /\ \A p \in Procs : runs[p].pc = "done"
    /\ runs[1].data.type = "In"
    /\ runs[1].result # <<>>
    /\ runs[2].data.type = "Third"
    /\ runs[2].after
    /\ runs[2].result = <<>>

(***************************************************************************)
(* Preparation and evaluation of an Either in one Validate run             *)
(***************************************************************************)
\* the Either under the root
RootEither == input.tree.children[1]

\* Validate has evaluated the tree, so PrepareConditions had returned nil
TreeEvaluated == v.pc \in {"PrepareRules", "ValidateRules", "done"} /\ v.err = OK

\* the calls of a run in which a pure condition is tested, the members of the
\* list it selects are prepared, and Evaluate tests the condition again and
\* evaluates the members of the list it selects then
PureEitherRun ==
    LET t == RootEither
        s0 == Logged(Fresh, Ev("PrepareConditions", 0, input.ctx))
        iv == ConditionIsValid(t.cond, input.ctx, s0)
        pr == PrepareEach(IF iv.val THEN t.left ELSE t.right, input.ctx, iv.s)
        s3 == Logged(pr.s, Ev("Evaluate", 0, input.ctx))
        ev == ConditionIsValid(t.cond, input.ctx, s3)
        cm == CollectMatched(IF ev.val THEN t.left ELSE t.right, input.ctx, "", <<>>, ev.s) IN
    [prepared |-> iv.val, selected |-> ev.val, log |-> cm.s.log]

\* the calls of a run in which an impure condition is prepared, then the
\* members of the left list and of the right list, and Evaluate tests the
\* condition and evaluates the members of the list it selects
ImpureEitherRun ==
    LET t == RootEither
        s0 == Logged(Fresh, Ev("PrepareConditions", 0, input.ctx))
        p == ConditionPrepare(t.cond, input.ctx, s0)
        l == PrepareEach(t.left, input.ctx, p.s)
        r == PrepareEach(t.right, input.ctx, l.s)
        s3 == Logged(r.s, Ev("Evaluate", 0, input.ctx))
        ev == ConditionIsValid(t.cond, input.ctx, s3)
        cm == CollectMatched(IF ev.val THEN t.left ELSE t.right, input.ctx, "", <<>>, ev.s) IN
    [selected |-> ev.val, log |-> cm.s.log]

\* the calls made begin with the given ones
StartsWith(calls, first) ==
    Len(first) <= Len(calls) /\ SubSeq(calls, 1, Len(first)) = first

\* C28: in a Validate run over an Either whose condition is not nil, the list
\* whose members are prepared agrees with the list Evaluate selects: under a
\* pure condition the members of the list IsValid selects at preparation are
\* prepared, no member of the other list and not the condition itself, and
\* Evaluate selects that list; under an impure condition the condition is
\* prepared and then the members of both lists.
C28_EitherPreparedIsEvaluated ==
    (TreeEvaluated /\ RootEither.cond # NilCondition) =>
        IF IsPure(RootEither.cond)
        THEN /\ StartsWith(log, PureEitherRun.log)
             /\ PureEitherRun.prepared = PureEitherRun.selected
        ELSE StartsWith(log, ImpureEitherRun.log)

\* a pure condition that is not valid: the condition of the right list has
\* been prepared and evaluated, the one of the left list has not been called
C28_Witness ==
    /\ TreeEvaluated
    /\ RootEither.cond = NewTypedCondition(1)
    /\ ~PureEitherRun.selected
    /\ RootEither.left = <<Node(NewTypedConditionWithPrepare(2), <<Rules(<<NewTypedRuleWithPrepare(2)>>)>>)>>
    /\ RootEither.right = <<Rules(<<NewTypedRule(1)>>), Node(NewTypedConditionWithPrepare(2), <<Rules(<<NewTypedRuleWithPrepare(2)>>)>>)>>
    /\ \E n \in 1..Len(log) : log[n].op = "Condition.Prepare" /\ log[n].on = 2
    /\ \E n \in 1..Len(log) : log[n].op = "IsValid" /\ log[n].on = 2

(***************************************************************************)
(* What Evaluate writes                                                    *)
(***************************************************************************)
RECURSIVE InLeavesReached(_, _, _)

\* the rules of the leaves Evaluate calls LeafNode.Evaluate on, h being the
\* fields of the conditions at the call: all children under a valid condition
\* and under a disjunction, the children of a conjunction up to the first
\* that does not match, the members of the list an Either selects
InLeavesReached(t, ctx, h) ==
    LET st == [heap |-> h, log |-> <<>>]
        under(list, n) == UNION { InLeavesReached(list[i], ctx, h) : i \in 1..n } IN
    CASE t.kind = "leaf" -> { t.rules[i].name : i \in 1..Len(t.rules) }
      [] t.kind = "node" ->
            IF t.cond = NilCondition \/ ~ConditionIsValid(t.cond, ctx, st).val THEN {}
            ELSE under(t.children, Len(t.children))
      [] t.kind = "allOf" ->
            LET bad == { i \in 1..Len(t.children) : ~Evaluate(t.children[i], ctx, "", st).ok } IN
            under(t.children, IF bad = {} THEN Len(t.children)
                              ELSE CHOOSE i \in bad : \A j \in bad : i <= j)
      [] t.kind = "anyOf" -> under(t.children, Len(t.children))
      [] t.kind = "either" ->
            IF t.cond # NilCondition /\ ConditionIsValid(t.cond, ctx, st).val
            THEN under(t.left, Len(t.left)) ELSE under(t.right, Len(t.right))

\* the names of the rules a call of Evaluate has returned
ReturnedNames(rules) == { rules[i].name : i \in 1..Len(rules) }

\* C29 as stated: Evaluate changes the execution path only of the rules it
\* returns; a rule that is not in the list the root's Evaluate returns keeps
\* the execution path it had before the call.
C29_OnlyCandidatesStamped ==
    [][e'.pc = "done" =>
          \A n \in RuleNames :
              n \notin ReturnedNames(e'.rules) => heap'.path[n] = heap.path[n]]_vars

\* C29: Evaluate changes the execution path of the rules of the leaves it
\* reaches, whether or not they are returned, and of no other rule: a rule in
\* no leaf reached keeps the execution path it had before the call, and every
\* rule returned is in a leaf reached.
C29_OnlyReachedStamped ==
    [][e'.pc = "done" =>
          LET reached == InLeavesReached(input.tree, input.ctx, heap) IN
          /\ ReturnedNames(e'.rules) \subseteq reached
          /\ \A n \in RuleNames :
                IF n \in reached THEN heap'.path[n] # ""
                ELSE heap'.path[n] = heap.path[n]]_vars

\* a conjunction whose first child is a leaf and whose second child does not
\* match: nothing is returned, the rule of the leaf has an execution path and
\* the rule behind the condition has none
C29_Witness ==
    /\ e.pc = "done"
    /\ input.tree.kind = "allOf"
    /\ Len(input.tree.children) = 2
    /\ input.tree.children[1].kind = "leaf"
    /\ input.tree.children[2].kind = "node"
    /\ ~e.ok
    /\ e.rules = <<>>
    /\ \E n \in RuleNames : heap.path[n] # ""
    /\ \E n \in RuleNames : heap.path[n] = ""

(***************************************************************************)
(* Runs one after the other on a tree with rules and conditions that load  *)
(***************************************************************************)
\* a condition that loads data used twice in one tree: behind a pure
\* condition, and in the right list of an Either built with a nil condition
SharedConditionTrees ==
    { Root(<<Node(NewTypedCondition(1),
                  <<Node(NewTypedConditionWithPrepare(2), <<Rules(<<r>>)>>)>>),
             Either(NilCondition, <<>>,
                    <<Node(NewTypedConditionWithPrepare(2), <<Rules(<<r>>)>>)>>)>>) :
        r \in RulePool }

SequentialTrees == RunTrees \cup SharedConditionTrees

InitSequential ==
    /\ \E tree \in SequentialTrees :
          /\ input = [tree |-> tree, ctx |-> Background, hooks |-> {}, name |-> "tree"]
          /\ \E d \in [Procs -> DataFor(tree)] :
                runs = [p \in Procs |-> [IdleRun EXCEPT !.pc = "PrepareConditions",
                                                        !.data = d[p]]]
    /\ heap = FreshHeap
    /\ log = <<>>
    /\ v = IdleV
    /\ m = IdleM
    /\ e = IdleE
    /\ ctxs = <<>>

SpecSequential == InitSequential /\ [][NextSequential]_vars

\* C30: on a tree holding rules built by NewTypedRuleWithPrepare and
\* conditions built by NewTypedConditionWithPrepare, each of the calls of
\* ValidateWithData made one after the other on the one tree returns the list
\* of failures its data gives on a tree built afresh.
C30_SequentialRunsAsFresh ==
    \A p \in Procs : runs[p].pc = "done" => runs[p].result = Alone(p)

====
